---- MODULE Spec2Model ----
(***************************************************************************)
(* BetterAPI (Hono + Zod + OpenAPI): the request pipeline of               *)
(* BetterAPI.registerRoute (validation of the field groups, dependency     *)
(* resolution in a request scope, the handler, response validation, the    *)
(* error handlers), in the variants the repository holds:                  *)
(*   "openapi"  src/src/core/openapi.ts  (collect-all, parseRequestBody,   *)
(*              RequestValidationError / ResponseValidationError)          *)
(*   "coreapi"  src/src/core/api.ts      (collect-all, bodies read         *)
(*              unconditionally, raw ValidationErrors map as 400 body)     *)
(*   "legacy"   src/src/plugins/rate-limit.ts 1368-1560 (as "honoapi",   *)
(*              responses are schemas keyed by status)                     *)
(*   "honoapi"  src/src/hono/api.ts      (throws at the first failing      *)
(*              group)                                                     *)
(* The validator (zod) and the transport (hono) are external: a validator  *)
(* call is modelled by its outcome (decoded data, or a list of issues),    *)
(* the transport's body readers are total.                                 *)
(***************************************************************************)
EXTENDS Integers, Sequences, FiniteSets, TLC

\* ---------------------------------------------------------------- bounds
\* issues a validator reports for one failing group: 1..MaxIssues
MaxIssues == 2
\* values a query key carries: 1..MaxValues
MaxValues == 2
\* field groups one route declares: 0..MaxDeclared
MaxDeclared == 2

\* ------------------------------------------------------------- utilities
Range(s) == {s[i] : i \in 1..Len(s)}

SeqsUpTo(S, n) == UNION {[1..k -> S] : k \in 1..n}

\* the two requests whose steps may interleave
Reqs == {"r1", "r2"}

\* ------------------------------------------------------ dependency graph
\* providers A and B both request provider C through ctx.get
\* the providers wrapped by requiresAuth, each with the kSecurityMeta it
\* carries: Reader = bearerAuth(U, ['read']), Editor = bearerAuth(U,
\* ['read', 'write']), Member = requiresAuth('apiKey', U) without scopes
Wrapped == {"Reader", "Editor", "Member"}

kSecurityMeta ==
  [p \in Wrapped |->
     CASE p = "Reader" -> [scheme |-> "bearerAuth", given |-> TRUE, scopes |-> <<"read">>]
       [] p = "Editor" -> [scheme |-> "bearerAuth", given |-> TRUE,
                           scopes |-> <<"read", "write">>]
       [] OTHER -> [scheme |-> "apiKey", given |-> FALSE, scopes |-> <<>>]]

\* A and B request C; a wrapped provider requests the provider U of the
\* current principal
Providers == {"A", "B", "C", "U"} \cup Wrapped

Calls ==
  [p \in Providers |->
     IF p \in {"A", "B"} THEN <<"C">> ELSE IF p \in Wrapped THEN <<"U">> ELSE <<>>]

\* what a provider function does once the providers it requested are
\* available: resolve to a value, resolve to undefined, or throw
Outcomes == {"value", "undefined", "throw"}

\* what the provider of the current principal resolves to: undefined, null,
\* a principal without a scopes array, or one whose scopes are [], ['read']
\* or ['read', 'write']
PrincipalOutcomes == {"undefined", "null", "noscopes", "scopes0", "scopesR", "scopesRW"}

\* Array.isArray(u.scopes) ? u.scopes : []
UserScopes(outcome) ==
  CASE outcome = "scopesR" -> {"read"}
    [] outcome = "scopesRW" -> {"read", "write"}
    [] OTHER -> {}

\* one activation of resolveProvider per call path: <<p>> is started by the
\* route wrapper, <<p, q>> by provider p through ctx.get(q)
ActIds == {<<p>> : p \in Providers} \cup
          UNION {{<<p, q>> : q \in Range(Calls[p])} : p \in Providers}

ProviderOf(id) == id[Len(id)]

\* JavaScript values that flow through the request scope
NoResult == [kind |-> "none", prov |-> "-", req |-> "-", inv |-> 0]

Undefined == [kind |-> "undefined", prov |-> "-", req |-> "-", inv |-> 0]

\* the value (the Error) produced by the inv-th invocation of provider p in
\* request r: two invocations never produce the same object
ValueOf(p, r, n) == [kind |-> "value", prov |-> p, req |-> r, inv |-> n]

ErrorOf(p, r, n) == [kind |-> "error", prov |-> p, req |-> r, inv |-> n]

Null == [kind |-> "null", prov |-> "-", req |-> "-", inv |-> 0]

\* new Error(msg) thrown by the inv-th invocation of the wrapped provider p
AuthError(p, r, n, msg) == [kind |-> "error", prov |-> p, req |-> r, inv |-> n, msg |-> msg]

\* a wrapper satisfied by any one of the required scopes
RequiresAuthAnyScope(meta, user, userScopes, p, r, n) ==
  IF user.kind \in {"undefined", "null"} THEN AuthError(p, r, n, "unauthorized")
  ELSE IF meta.given /\ Len(meta.scopes) > 0
          /\ SelectSeq(meta.scopes, LAMBDA sc : sc \in userScopes) = <<>>
  THEN AuthError(p, r, n, "forbidden")
  ELSE user

\* the body of a provider wrapped by requiresAuth once ctx.get(provider)
\* gave user, whose scopes are userScopes
RequiresAuth(meta, user, userScopes, p, r, n) ==
  IF user.kind \in {"undefined", "null"} THEN AuthError(p, r, n, "unauthorized")
  ELSE IF meta.given /\ Len(meta.scopes) > 0
          /\ SelectSeq(meta.scopes, LAMBDA sc : sc \notin userScopes) # <<>>
  THEN AuthError(p, r, n, "forbidden")
  ELSE user

NoAct == [pc |-> "none", next |-> 0, out |-> NoResult, n |-> 0]

\* Map.get: undefined for a key the Map does not hold
StoreGet(store, p) == IF p \in DOMAIN store THEN store[p] ELSE Undefined

\* Map.set
StoreSet(store, p, v) == [q \in (DOMAIN store) \cup {p} |-> IF q = p THEN v ELSE store[q]]

EmptyMap == [q \in {} |-> Undefined]

\* ------------------------------------------------------ request validation
\* the field groups, in the order the wrapper validates them
Groups == <<"params", "query", "headers", "cookies", "body", "form", "file", "files">>

GroupSet == Range(Groups)

BodyGroups == {"body", "form", "file", "files"}

GroupIndex(g) == CHOOSE i \in 1..Len(Groups) : Groups[i] = g

Impls == {"openapi", "coreapi", "honoapi"}

\* how a route declares a group: "none" (no schema), "schema" (a params /
\* query / headers / cookies object schema), and for the payload groups
\* "required" / "optional" (the required flag normalizeBodySchema leaves on
\* the request body object) or "bare" (the schema itself, in the variants
\* that do not normalize and know no required flag)
Declared(route, g) == route.schemas[g] # "none"

DeclaredGroups(route) == {g \in GroupSet : Declared(route, g)}

\* the first declared group at index >= i, Len(Groups) + 1 when there is none:
\* a group without schema is skipped by the wrapper
\* a wrapper that runs no schema at all
NextDeclaredNone(route, i) == Len(Groups) + 1

NextDeclared(route, i) ==
  IF \E j \in i..Len(Groups) : Declared(route, Groups[j])
  THEN CHOOSE j \in i..Len(Groups) :
         /\ Declared(route, Groups[j])
         /\ \A k \in i..(j - 1) : ~Declared(route, Groups[k])
  ELSE Len(Groups) + 1

\* the issue list of a failing validator call on group g
IssuesOf(g, n) == [k \in 1..n |-> [grp |-> g, idx |-> k]]

\* the transport's view of the payload: the content-length header (absent,
\* "0", or positive) and whether the body is empty
Transports == { [header |-> "absent", empty |-> TRUE],
                [header |-> "absent", empty |-> FALSE],
                [header |-> "zero", empty |-> TRUE],
                [header |-> "positive", empty |-> FALSE] }

NoTransport == [header |-> "absent", empty |-> TRUE]

\* ------------------------------------------------------------------ query
QKeys == {"k1", "k2"}

QValues == {"a", "b"}

\* c.req.queries(): each key that occurs maps to the list of its values
QueryInputs == UNION {[K -> SeqsUpTo(QValues, MaxValues)] : K \in SUBSET QKeys}

EmptyQuery == [k \in {} |-> <<>>]

Scalar(x) == [t |-> "scalar", v |-> <<x>>]

Array(xs) == [t |-> "array", v |-> xs]

\* c.req.query(): every key keeps its first value only
CollapseQueryFirst(rawQueries) ==
  [k \in DOMAIN rawQueries |-> Scalar(rawQueries[k][1])]

\* rawQuery: a key with exactly one value becomes that value, any other
\* key keeps the array of its values
CollapseQuery(rawQueries) ==
  [k \in DOMAIN rawQueries |->
     IF Len(rawQueries[k]) = 1 THEN Scalar(rawQueries[k][1]) ELSE Array(rawQueries[k])]

NoQuery == [k \in {"-"} |-> Scalar("-")]

\* -------------------------------------------------- payloads and responses
\* a handler payload { n: ... }: the property is missing, undefined, the
\* number 7, the string "7" or the string "x"
FieldVals == {"missing", "undefined", "num7", "str7", "strx"}

Payloads == [n : FieldVals]

\* the validator on a response schema such as
\* z.object({ n: z.coerce.number().default(0) }): the default is applied to
\* a missing or undefined n, "7" is coerced to 7, "x" is rejected
SafeParse(v) ==
  CASE v.n \in {"missing", "undefined"} ->
         [success |-> TRUE, data |-> [n |-> "num0"], issues |-> <<>>]
    [] v.n \in {"num0", "num7"} ->
         [success |-> TRUE, data |-> v, issues |-> <<>>]
    [] v.n = "str7" ->
         [success |-> TRUE, data |-> [n |-> "num7"], issues |-> <<>>]
    [] OTHER ->
         [success |-> FALSE, data |-> v, issues |-> IssuesOf("response", 1)]

\* JSON.stringify: a property whose value is undefined is left out
JSONStringify(v) ==
  [t |-> "json",
   v |-> IF "n" \in DOMAIN v
         THEN [v EXCEPT !.n = IF v.n = "undefined" THEN "missing" ELSE v.n]
         ELSE v]

\* Response.json()
JSONParse(body) == body.v

TextBody(text) == [t |-> "text", v |-> [text |-> text]]

NoHeaders == [h \in {} |-> ""]

\* { ...headers, 'Content-Type': ctype }
WithContentType(headers, ctype) ==
  [h \in (DOMAIN headers) \cup {"Content-Type"} |->
     IF h = "Content-Type" THEN ctype ELSE headers[h]]

\* new Response(body, { status, headers }): the status defaults to 200
NewResponse(class, body, status, headers) ==
  [class |-> class, body |-> body,
   status |-> IF status = 0 THEN 200 ELSE status, headers |-> headers]

\* new JSONResponse(body, init) with init = { status?, headers? }; a bare
\* status is { status }
JSONResponse(body, init) ==
  NewResponse("JSONResponse", JSONStringify(body), init.status,
              WithContentType(init.headers, "application/json"))

TextResponse(text, init) ==
  NewResponse("TextResponse", TextBody(text), init.status,
              WithContentType(init.headers, "text/plain"))

StatusInit(status) == [status |-> status, headers |-> NoHeaders]

NoResponse == [class |-> "none", body |-> TextBody(""), status |-> 0, headers |-> NoHeaders]

Statuses == {200, 201}

\* what a handler hands back
HandlerResults ==
  {[kind |-> "plain", payload |-> v, init |-> StatusInit(0)] : v \in Payloads} \cup
  {[kind |-> "json", payload |-> v, init |-> StatusInit(s)] :
     v \in Payloads, s \in Statuses} \cup
  {[kind |-> "json", payload |-> [n |-> "num7"],
    init |-> [status |-> 200, headers |-> [h \in {"X-Trace"} |-> "on"]]]} \cup
  {[kind |-> "text", payload |-> [n |-> "strx"], init |-> StatusInit(200)]} \cup
  {[kind |-> "throw", payload |-> [n |-> "missing"], init |-> StatusInit(0)]}

NoHandlerResult == [kind |-> "none", payload |-> [n |-> "missing"], init |-> StatusInit(0)]

\* the value the handler's promise resolves to
ResultValue(hr) ==
  CASE hr.kind = "json" -> JSONResponse(hr.payload, hr.init)
    [] hr.kind = "text" -> TextResponse("x", hr.init)
    [] OTHER -> [class |-> "plain", body |-> [t |-> "value", v |-> hr.payload],
                 status |-> 0, headers |-> NoHeaders]

\* getResponsesValidationSchema: the application/json schema of the status
GetResponsesValidationSchema(responses, status) ==
  IF status \in DOMAIN responses /\ responses[status] = "json" THEN "schema" ELSE "null"

\* a route's responses after normalization: each status it declares, with
\* an application/json schema ("json") or with other content only
ResponseConfigs == UNION {[S -> {"json", "nonjson"}] : S \in SUBSET Statuses}

\* ----------------------------------------------------------------- errors
\* ValidationErrors: the failing groups in insertion order
RECURSIVE FlatIssues(_)
\* Object.entries(errors).flatMap(([key, zodError]) =>
\*   zodError.issues.map((issue) => ({ in: key, ...issue })))
FlatIssues(errors) ==
  IF errors = <<>> THEN <<>>
  ELSE [k \in 1..Len(errors[1].issues) |->
          [in |-> errors[1].grp, issue |-> errors[1].issues[k]]]
       \o FlatIssues(Tail(errors))

\* the raw map { group: issues } of the variant that knows no error classes
ErrorsMap(errors) ==
  [g \in {errors[i].grp : i \in 1..Len(errors)} |->
     (CHOOSE e \in Range(errors) : e.grp = g).issues]

\* http.STATUS_CODES
StatusText(status) ==
  CASE status = 400 -> "Bad Request"
    [] status = 500 -> "Internal Server Error"
    [] OTHER -> "Unknown"

ErrorClasses == {"Error", "HonoHTTPException", "HTTPException", "ValidationError",
                 "RequestValidationError", "ResponseValidationError"}

\* Object.getPrototypeOf on the constructors
ParentClass(c) ==
  CASE c = "RequestValidationError" -> "ValidationError"
    [] c = "ResponseValidationError" -> "ValidationError"
    [] c = "ValidationError" -> "HTTPException"
    [] c = "HTTPException" -> "HonoHTTPException"
    [] OTHER -> "Error"

RECURSIVE InstanceOf(_, _)
InstanceOf(c, type) ==
  IF c = type THEN TRUE ELSE IF c = "Error" THEN FALSE ELSE InstanceOf(ParentClass(c), type)

RECURSIVE GetInheritanceDepth(_)
GetInheritanceDepth(ctor) ==
  IF ctor = "Error" THEN 0 ELSE 1 + GetInheritanceDepth(ParentClass(ctor))

NoError == [class |-> "none", status |-> 0, message |-> "", errors |-> <<>>,
            res |-> NoResponse, src |-> NoResult]

\* hono's HTTPException(status, { res, message, cause })
HonoHTTPException(status, res, message, cause) ==
  [class |-> "HonoHTTPException", status |-> status, message |-> message,
   errors |-> cause, res |-> res, src |-> NoResult]

\* errors.ts HTTPException -> ValidationError: the response is built in the
\* constructor from the flattened issues and the message
ValidationError(class, status, errors, message) ==
  [class |-> class, status |-> status, message |-> message, errors |-> errors,
   res |-> JSONResponse([error |-> FlatIssues(errors), message |-> message],
                        StatusInit(status)),
   src |-> NoResult]

RequestValidationError(status, errors) ==
  ValidationError("RequestValidationError", status, errors, "Request validation failed")

ResponseValidationError(status, errors) ==
  ValidationError("ResponseValidationError", status, errors, "Response validation failed")

PlainError(src) ==
  [class |-> "Error", status |-> 0, message |-> "error", errors |-> <<>>,
   res |-> NoResponse, src |-> src]

\* hono's HTTPException.getResponse()
GetResponse(error) ==
  IF error.res.class # "none"
  THEN NewResponse("Response", error.res.body, error.status, error.res.headers)
  ELSE NewResponse("Response", TextBody(error.message), error.status,
                   WithContentType(NoHeaders, "text/plain"))

\* c.json(body, status)
ContextJson(body, status) ==
  NewResponse("Response", JSONStringify(body), status,
              WithContentType(NoHeaders, "application/json"))

\* the responders registerDefaultErrorHandlers installs, in insertion order
DefaultErrorHandlers ==
  << [type |-> "HonoHTTPException", handler |-> "httpException"],
     [type |-> "ResponseValidationError", handler |-> "responseValidation"] >>

\* the responders an application registers besides the default ones
CustomHandlers == {"h1", "h2"}

\* the error types an application registers responders for
RegisteredTypes == {"Error", "ValidationError", "ResponseValidationError"}

MaxRegistrations == 2

\* Map.set keeping the first of two entries for a type
MapSetKeepFirst(handlers, type, handler) ==
  IF \E i \in DOMAIN handlers : handlers[i].type = type
  THEN handlers
  ELSE Append(handlers, [type |-> type, handler |-> handler])

\* registerErrorHandler: errorHandlers.set(errorType, handler); a Map keeps
\* the position of a key that is set again
MapSet(handlers, type, handler) ==
  IF \E i \in DOMAIN handlers : handlers[i].type = type
  THEN [i \in DOMAIN handlers |->
          IF handlers[i].type = type THEN [type |-> type, handler |-> handler]
          ELSE handlers[i]]
  ELSE Append(handlers, [type |-> type, handler |-> handler])

RECURSIVE FindFrom(_, _, _, _)
FindFrom(handlers, error, bestMatch, maxDepth) ==
  IF handlers = <<>> THEN bestMatch
  ELSE LET h == handlers[1]
           depth == GetInheritanceDepth(h.type)
       IN IF InstanceOf(error.class, h.type) /\ depth > maxDepth
          THEN FindFrom(Tail(handlers), error, h.handler, depth)
          ELSE FindFrom(Tail(handlers), error, bestMatch, maxDepth)

FindErrorHandler(handlers, error) == FindFrom(handlers, error, "null", -1)

ApplyErrorHandler(handler, error) ==
  IF handler = "responseValidation"
  THEN ContextJson([message |-> StatusText(error.status)], error.status)
  ELSE IF handler \in CustomHandlers
  THEN ContextJson([message |-> handler], 418)
  ELSE LET res == GetResponse(error)
       IN NewResponse("Response", res.body, res.status, res.headers)

\* an onError that never looks a responder up
OnErrorFallback(handlers, error) ==
  ContextJson([message |-> "Internal Server Error"], 500)

\* setupErrorHandler: instance.onError
OnErrorRegistered(handlers, error) ==
  LET handler == FindErrorHandler(handlers, error)
  IN IF handler # "null" THEN ApplyErrorHandler(handler, error)
     ELSE ContextJson([message |-> "Internal Server Error"], 500)

\* hono's own error handler, used by the variants that install none
OnErrorDefault(error) ==
  IF InstanceOf(error.class, "HonoHTTPException") THEN GetResponse(error)
  ELSE NewResponse("Response", TextBody("Internal Server Error"), 500,
                   WithContentType(NoHeaders, "text/plain"))

\* what a handler may throw: a plain Error, hono's HTTPException, a
\* ResponseValidationError
ThrownErrors ==
  {PlainError(NoResult),
   HonoHTTPException(404, NoResponse, "Not Found", <<>>),
   ResponseValidationError(500, <<>>)}

\* a handler that returns a value or throws one of these
ThrowingResults ==
  {[kind |-> "plain", payload |-> [n |-> "num7"], init |-> StatusInit(0)]} \cup
  {[kind |-> "throw", payload |-> [n |-> "missing"], init |-> StatusInit(0), error |-> e] :
     e \in ThrownErrors}

\* ------------------------------------------------- schema normalization
\* JavaScript values of a route declaration, tagged by what the type guards
\* see: a zod schema (isZodType), an object with a schema key, an object
\* with a content key, a map keyed by status, undefined
UndefinedValue == [t |-> "undefined"]

ZodSchemas == {"S1", "S2"}

Zod(schema) == [t |-> "zod", schema |-> schema]

\* an optional property: undefined or set
Optional(v) == {"undefined", v}

\* a media type object { schema, ...rest }: rest is the example here
Media(schema, example) == [schema |-> schema, example |-> example]

ContentTypes == {"application/json", "text/plain"}

\* { schema, description?, headers?, links?, ...rest }
SimpleResponses ==
  [t : {"simple"}, schema : {"S1"}, description : Optional("desc"),
   headers : Optional("hdrs"), links : Optional("lnks"), example : Optional("ex")]

\* { content, description?, headers?, links? }
Contents ==
  {[c \in {"application/json"} |-> Media(sc, "undefined")] : sc \in ZodSchemas} \cup
  {[c \in {"text/plain"} |-> Media("S1", "undefined")]} \cup
  {[c \in ContentTypes |-> Media("S1", IF c = "text/plain" THEN "ex" ELSE "undefined")]}

ResponseObject(content, description, headers, links) ==
  [t |-> "response", content |-> content, description |-> description,
   headers |-> headers, links |-> links]

FullResponses ==
  {ResponseObject(c, d, h, l) :
     c \in Contents, d \in Optional("desc"), h \in Optional("hdrs"), l \in Optional("lnks")}

StatusMap(m) == [t |-> "map", m |-> m]

\* the single-response declarations and the entries of a status map
ResponseEntries == {Zod(sc) : sc \in ZodSchemas} \cup SimpleResponses \cup FullResponses

JsonContent(schema, example) ==
  [c \in {"application/json"} |-> Media(schema, example)]

\* { links, description, headers, content: { 'application/json': { schema, ...rest } } }
FromSimple(x) ==
  ResponseObject(JsonContent(x.schema, x.example), x.description, x.headers, x.links)

\* isRouteResponses: an object some value of which is a schema or a response
IsRouteResponses(x) ==
  /\ x.t = "map"
  /\ \E st \in DOMAIN x.m : x.m[st].t \in {"zod", "simple", "response"}

\* normalizeResponsesSchema
NormalizeResponsesSchema(responses) ==
  CASE responses.t = "zod" ->
         StatusMap([st \in {200} |->
           ResponseObject(JsonContent(responses.schema, "undefined"),
                          "undefined", "undefined", "undefined")])
    [] responses.t = "simple" -> StatusMap([st \in {200} |-> FromSimple(responses)])
    [] responses.t = "response" -> StatusMap([st \in {200} |-> responses])
    [] IsRouteResponses(responses) ->
         StatusMap([st \in {x \in DOMAIN responses.m :
                              responses.m[x].t \in {"zod", "simple", "response"}} |->
           LET config == responses.m[st]
           IN CASE config.t = "zod" ->
                     ResponseObject(JsonContent(config.schema, "undefined"),
                                    "", "undefined", "undefined")
                [] config.t = "simple" -> FromSimple(config)
                [] OTHER -> config])
    [] OTHER -> UndefinedValue

\* { schema, description?, required?, ...rest }
SimpleBodies ==
  [t : {"simple"}, schema : {"S1"}, description : Optional("desc"),
   required : {"undefined", "true", "false"}, example : Optional("ex")]

\* { content, description?, required? }
FullBodies ==
  [t : {"body"}, content : Contents, description : Optional("desc"),
   required : {"undefined", "true", "false"}]

BodySchemas == {Zod(sc) : sc \in ZodSchemas} \cup SimpleBodies \cup FullBodies

RequestBody(required, description, content) ==
  [t |-> "body", required |-> required, description |-> description, content |-> content]

\* a wrapper that takes every { schema } body as required
NormalizeBodySchemaRequired(body) ==
  CASE body.t = "zod" ->
         RequestBody("true", "undefined", JsonContent(body.schema, "undefined"))
    [] body.t = "simple" ->
         RequestBody("true", body.description, JsonContent(body.schema, body.example))
    [] body.t = "body" ->
         RequestBody(IF body.required = "undefined" THEN "true" ELSE body.required,
                     body.description, body.content)
    [] OTHER -> UndefinedValue

\* normalizeBodySchema: required defaults to true
NormalizeBodySchema(body) ==
  CASE body.t = "zod" ->
         RequestBody("true", "undefined", JsonContent(body.schema, "undefined"))
    [] body.t = "simple" ->
         RequestBody(IF body.required = "undefined" THEN "true" ELSE body.required,
                     body.description, JsonContent(body.schema, body.example))
    [] body.t = "body" ->
         RequestBody(IF body.required = "undefined" THEN "true" ELSE body.required,
                     body.description, body.content)
    [] OTHER -> UndefinedValue

\* --------------------------------------------------------- documentation
\* what a route declares for the document: responses, body, security, deps
SecurityList(reqs) == [t |-> "list", v |-> reqs]

\* a security requirement { [scheme]: scopes }
Requirement(scheme, scopes) == [scheme |-> scheme, scopes |-> scopes]

SecurityValues ==
  {UndefinedValue, SecurityList(<<>>), SecurityList(<<Requirement("apiKey", <<>>)>>)}

MaxDeps == 2

DepsOf(names) == [t |-> "deps", v |-> names]

\* deps in declaration order; "A" carries no security metadata
DepsValues ==
  {UndefinedValue} \cup {DepsOf(d) : d \in SeqsUpTo(Wrapped \cup {"A"}, MaxDeps)}

\* the entries declared under a status: the schemas, and the response shapes
\* with their optional properties all set or all left out
MapEntries ==
  {e \in ResponseEntries :
     \/ e.t = "zod"
     \/ /\ (e.description = "undefined") = (e.headers = "undefined")
        /\ (e.headers = "undefined") = (e.links = "undefined")}

StatusMaps(entries) ==
  {StatusMap(m) : m \in UNION {[S -> entries] : S \in SUBSET Statuses}}

ResponsesSchemas == ResponseEntries \cup StatusMaps(MapEntries)

\* the generators of the document: "normalized" documents the request body
\* the route registered after normalization, "pathitem" builds it from the
\* schemas as they were declared
Generators == {"normalized", "pathitem"}

\* a form schema is an object schema, with or without a property of the raw
\* file type; it is declared bare or as { schema, ... }
FormSchemas ==
  {[t |-> "zod", schema |-> "F1", hasFile |-> b] : b \in BOOLEAN} \cup
  {[t |-> "simple", schema |-> "F1", hasFile |-> b, description |-> "desc",
    required |-> "undefined", example |-> "undefined"] : b \in BOOLEAN}

FileSchemas == {Zod("FILE")}

FilesSchemas == {Zod("FILES")}

RouteConfig(responses, body, security, deps) ==
  [responses |-> responses, body |-> body, security |-> security, deps |-> deps,
   form |-> UndefinedValue, file |-> UndefinedValue, files |-> UndefinedValue,
   params |-> UndefinedValue, generator |-> "normalized"]

NoConfig == RouteConfig(UndefinedValue, UndefinedValue, UndefinedValue, UndefinedValue)

RouteConfigs ==
  {RouteConfig(x, UndefinedValue, UndefinedValue, UndefinedValue) :
     x \in ResponsesSchemas \cup {UndefinedValue}} \cup
  {RouteConfig(UndefinedValue, b, UndefinedValue, UndefinedValue) : b \in BodySchemas} \cup
  {RouteConfig(UndefinedValue, UndefinedValue, sec, d) :
     sec \in SecurityValues, d \in DepsValues} \cup
  {[NoConfig EXCEPT !.form = f, !.generator = g] : f \in FormSchemas, g \in Generators} \cup
  {[NoConfig EXCEPT !.file = f, !.generator = g] : f \in FileSchemas, g \in Generators} \cup
  {[NoConfig EXCEPT !.files = f, !.generator = g] : f \in FilesSchemas, g \in Generators}

DocPaths == {"/items"}

\* globalResponses is a status map; the global security is a list
GlobalEntries ==
  {Zod("S2"),
   ResponseObject(JsonContent("S2", "undefined"), "global", "ghdrs", "glnks")}

GlobalOptions ==
  [globalResponses : {UndefinedValue} \cup StatusMaps(GlobalEntries),
   globalSecurity : {UndefinedValue, SecurityList(<<>>),
                     SecurityList(<<Requirement("bearerAuth", <<>>)>>)},
   openapi : {"undefined"},
   globalRequestParams : {UndefinedValue}]

NoGlobalOptions ==
  [globalResponses |-> UndefinedValue, globalSecurity |-> UndefinedValue,
   openapi |-> "undefined", globalRequestParams |-> UndefinedValue]

\* a derivation that also lists the dependencies without metadata
DerivedSecurityAll(deps) ==
  IF deps.t = "undefined" THEN UndefinedValue
  ELSE LET reqs == [i \in 1..Len(deps.v) |->
                      IF deps.v[i] \in Wrapped
                      THEN Requirement(kSecurityMeta[deps.v[i]].scheme,
                                       kSecurityMeta[deps.v[i]].scopes)
                      ELSE Requirement("", <<>>)]
       IN IF Len(reqs) > 0 THEN SecurityList(reqs) ELSE UndefinedValue

\* registerRoute: one requirement per dependency carrying kSecurityMeta
DerivedSecurity(deps) ==
  IF deps.t = "undefined" THEN UndefinedValue
  ELSE LET tagged == SelectSeq(deps.v, LAMBDA p : p \in Wrapped)
           reqs == [i \in 1..Len(tagged) |->
                      LET meta == kSecurityMeta[tagged[i]]
                      IN Requirement(meta.scheme,
                                     IF meta.given THEN meta.scopes ELSE <<>>)]
       IN IF Len(reqs) > 0 THEN SecurityList(reqs) ELSE UndefinedValue

\* a registration that prefers the derived security
RouteSecurityDerivedFirst(security, deps) ==
  IF DerivedSecurity(deps).t # "undefined" THEN DerivedSecurity(deps) ELSE security

\* options?.security ?? derivedSecurity
RouteSecurity(security, deps) ==
  IF security.t # "undefined" THEN security ELSE DerivedSecurity(deps)

FormContent(schema, example) ==
  [c \in {"multipart/form-data", "application/x-www-form-urlencoded"} |->
     Media(schema, example)]

MultipartContent(schema, example) ==
  [c \in {"multipart/form-data"} |-> Media(schema, example)]

\* normalizeFormSchema
NormalizeFormSchema(form) ==
  CASE form.t = "zod" ->
         RequestBody("true", "undefined", FormContent(form.schema, "undefined"))
    [] form.t = "simple" ->
         RequestBody(IF form.required = "undefined" THEN "true" ELSE form.required,
                     form.description, FormContent(form.schema, form.example))
    [] form.t = "body" ->
         RequestBody(IF form.required = "undefined" THEN "true" ELSE form.required,
                     form.description, form.content)
    [] OTHER -> UndefinedValue

\* normalizeFileSchema, normalizeFilesSchema
NormalizeFileSchema(file) ==
  CASE file.t = "zod" ->
         RequestBody("true", "undefined", MultipartContent(file.schema, "undefined"))
    [] file.t = "simple" ->
         RequestBody(IF file.required = "undefined" THEN "true" ELSE file.required,
                     file.description, MultipartContent(file.schema, file.example))
    [] file.t = "body" ->
         RequestBody(IF file.required = "undefined" THEN "true" ELSE file.required,
                     file.description, file.content)
    [] OTHER -> UndefinedValue

\* value && f(value)
IfDefined(value, normalized) == IF value.t = "undefined" THEN UndefinedValue ELSE normalized

\* a registry that puts the newest route first
UnshiftRoute(registry, rt) == <<rt>> \o registry

\* registerOpenApiRoute: openApiRoutes.push(route)
PushRoute(registry, rt) == Append(registry, rt)

\* a ZodObject: its shape gives each key its definition
ZodObject(shape) == [t |-> "object", shape |-> shape]

\* schema.extend(shape): { ...schema.shape, ...shape }
Extend(schema, shape) ==
  ZodObject([k \in (DOMAIN schema.shape) \cup (DOMAIN shape) |->
               IF k \in DOMAIN shape THEN shape[k] ELSE schema.shape[k]])

\* a merge in which the route's own definition of a shared key is kept
MergeZodObjectsLocalWins(global, local) ==
  IF global.t = "undefined" /\ local.t = "undefined" THEN UndefinedValue
  ELSE IF global.t = "undefined" THEN local
  ELSE IF local.t = "undefined" THEN global
  ELSE Extend(global, local.shape)

\* mergeZodObjects(global, local)
MergeZodObjects(global, local) ==
  IF global.t = "undefined" /\ local.t = "undefined" THEN UndefinedValue
  ELSE IF global.t = "undefined" THEN local
  ELSE IF local.t = "undefined" THEN global
  ELSE Extend(local, global.shape)

\* globalRequestParams?.params
GlobalParams(options) ==
  IF options.globalRequestParams.t = "undefined" THEN UndefinedValue
  ELSE options.globalRequestParams.params

\* the route as registered for the document; config is what was declared
\* and global the global params schema in effect at the registration.
\* The registration that goes with the "pathitem" generator stores the
\* request schemas as declared
OpenApiRoute(path, config, options) ==
  [path |-> path,
   config |-> config,
   global |-> GlobalParams(options),
   params |-> MergeZodObjects(GlobalParams(options), config.params),
   responses |-> IfDefined(config.responses, NormalizeResponsesSchema(config.responses)),
   body |-> IF config.generator = "pathitem" THEN config.body
            ELSE IfDefined(config.body, NormalizeBodySchema(config.body)),
   form |-> IF config.generator = "pathitem" THEN config.form
            ELSE IfDefined(config.form, NormalizeFormSchema(config.form)),
   file |-> IF config.generator = "pathitem" THEN config.file
            ELSE IfDefined(config.file, NormalizeFileSchema(config.file)),
   files |-> IF config.generator = "pathitem" THEN config.files
             ELSE IfDefined(config.files, NormalizeFileSchema(config.files)),
   security |-> RouteSecurity(config.security, config.deps)]

\* http.STATUS_CODES
STATUS_CODES(status) ==
  CASE status = 200 -> "OK"
    [] status = 201 -> "Created"
    [] OTHER -> StatusText(status)

\* { ...a, ...b } of two status maps, undefined spreading as nothing
Spread(a, b) ==
  LET am == IF a.t = "map" THEN a.m ELSE <<>>
      bm == IF b.t = "map" THEN b.m ELSE <<>>
  IN StatusMap([st \in (DOMAIN am) \cup (DOMAIN bm) |->
                  IF st \in DOMAIN bm THEN bm[st] ELSE am[st]])

\* createZodOpenApiPathItemObject: the responses of the operation
OperationResponses(rt, options) ==
  LET normalizedGlobalResponses ==
        IF options.globalResponses.t = "undefined" THEN UndefinedValue
        ELSE NormalizeResponsesSchema(options.globalResponses)
      merged ==
        IF rt.responses.t # "undefined"
        THEN Spread(normalizedGlobalResponses, rt.responses)
        ELSE normalizedGlobalResponses
  IN IF merged.t = "undefined" THEN StatusMap(<<>>)
     ELSE StatusMap([st \in DOMAIN merged.m |->
            ResponseObject(merged.m[st].content,
                           IF merged.m[st].description \in {"undefined", ""}
                           THEN STATUS_CODES(st) ELSE merged.m[st].description,
                           "undefined", "undefined")])

\* generateOpenAPI: if (route.security) operation.security = route.security
OperationSecurity(rt) == rt.security

\* createZodOpenApiPathItem: the request body built from the declared
\* body, form, file or files schema
PathItemRequestBody(rt) ==
  IF rt.body.t # "undefined"
  THEN IF rt.body.t \in {"zod", "simple"}
       THEN [t |-> "body",
             required |-> IF rt.body.t = "simple" /\ rt.body.required = "false"
                          THEN "false" ELSE "true",
             description |-> IF rt.body.t = "simple" THEN rt.body.description
                             ELSE "undefined",
             content |-> JsonContent(rt.body.schema, "undefined")]
       ELSE UndefinedValue
  ELSE IF rt.form.t # "undefined"
  THEN [t |-> "body", required |-> "undefined", description |-> "undefined",
        content |-> IF rt.form.hasFile THEN MultipartContent(rt.form.schema, "undefined")
                    ELSE FormContent(rt.form.schema, "undefined")]
  ELSE IF rt.file.t # "undefined"
  THEN [t |-> "body", required |-> "undefined", description |-> "undefined",
        content |-> MultipartContent("z.object({ file })", "undefined")]
  ELSE IF rt.files.t # "undefined"
  THEN [t |-> "body", required |-> "undefined", description |-> "undefined",
        content |-> MultipartContent("z.object({ files })", "undefined")]
  ELSE UndefinedValue

\* createZodOpenApiPathItemObject: the normalized body, form, file or files
NormalizedRequestBody(rt) ==
  IF rt.body.t # "undefined" THEN rt.body
  ELSE IF rt.form.t # "undefined" THEN rt.form
  ELSE IF rt.file.t # "undefined" THEN rt.file
  ELSE IF rt.files.t # "undefined" THEN rt.files
  ELSE UndefinedValue

Operation(rt, options) ==
  [requestParams |-> rt.params,
   responses |-> OperationResponses(rt, options),
   requestBody |-> IF rt.config.generator = "pathitem" THEN PathItemRequestBody(rt)
                   ELSE NormalizedRequestBody(rt),
   security |-> OperationSecurity(rt)]

NoDocument == [t |-> "undefined"]

\* getResponsesValidationSchema on the responses a route registered:
\* responses[statusCode]?.content?.['application/json']?.schema, or null
ValidationSchemaOf(responses, status) ==
  IF /\ responses.t = "map"
     /\ status \in DOMAIN responses.m
     /\ "application/json" \in DOMAIN responses.m[status].content
  THEN responses.m[status].content["application/json"].schema
  ELSE "null"

NoServed == [path |-> "", status |-> 0, schema |-> "null", params |-> UndefinedValue]

\* the first route registered for a path documents it
GenerateOpenAPI(registry, options) ==
  [t |-> "document",
   paths |-> [p \in {registry[i].path : i \in DOMAIN registry} |->
                LET i == CHOOSE j \in DOMAIN registry :
                           /\ registry[j].path = p
                           /\ \A k \in 1..(j - 1) : registry[k].path # p
                IN Operation(registry[i], options)],
   info |-> IF options.openapi = "undefined" THEN "API" ELSE options.openapi,
   security |-> options.globalSecurity]

\* ------------------------------------------------------------------ state
VARIABLES
  routes,         \* the routes registered on the application
  queries,        \* the query strings clients send
  pending,        \* requests not yet received
  errorHandlers,  \* BetterAPI.errorHandlers, in insertion order
  pc,             \* where the wrapper of each request stands
  route,          \* the route a request was dispatched to
  transport,      \* content-length header and payload of the request
  rawQueries,     \* c.req.queries() of the request
  rawQuery,       \* the collapsed query object, once computed
  queryInput,     \* the object handed to the query schema
  gi,             \* index in Groups of the next group to validate
  validated,      \* groups whose schema was run
  validationErrors, \* the request's ValidationErrors
  reads,          \* payload reads made on the transport
  parsed,         \* what the wrapper holds for each group
  stores,         \* the Map of each request scope
  acts,           \* the resolveProvider activations of each request
  invoked,        \* per request and provider, calls of the provider function
  outcome,        \* per request, what each provider function does
  handlerCalls,   \* per request, calls of the route handler
  result,         \* what the handler resolved to
  thrown,         \* the error the wrapper threw
  response,       \* the response the client receives
  globalOpenApiOptions, \* the global responses and security of the document
  openAPIRoutes,  \* the routes registered for the document, in order
  document,       \* the generated OpenAPI document
  registerCalls,  \* the registerErrorHandler calls of the application, in order
  served,         \* the response validation the wrapper of a route last made
  instances       \* the BetterAPI instances of the process, each with its router

vars == <<routes, queries, pending, errorHandlers, pc, route, transport, rawQueries,
          rawQuery, queryInput, gi, validated, validationErrors, reads, parsed, stores, acts,
          invoked, outcome, handlerCalls, result, thrown, response,
          globalOpenApiOptions, openAPIRoutes, document, registerCalls, served,
          instances>>

envVars == <<routes, queries, errorHandlers, globalOpenApiOptions, openAPIRoutes, document,
             registerCalls, served, instances>>

\* ----------------------------------------------------------------- routes
NoSchemas == [g \in GroupSet |-> "none"]

\* every way to declare exactly the groups of D in variant impl: a payload
\* group is required or optional where normalizeBodySchema runs, the bare
\* schema elsewhere
SchemasFor(impl, D) ==
  {[g \in GroupSet |->
      IF g \notin D THEN "none"
      ELSE IF g \notin BodyGroups THEN "schema"
      ELSE IF impl # "openapi" THEN "bare"
      ELSE IF g \in R THEN "required" ELSE "optional"] :
   R \in SUBSET (D \cap BodyGroups)}

NoResponses == [s \in {} |-> "json"]

\* a handler that returns one plain value
PlainHandler == {[kind |-> "plain", payload |-> [n |-> "num7"], init |-> StatusInit(0)]}

\* a registered route: the variant of the wrapper, the schemas of the field
\* groups, the normalized responses, the dependencies, and the handler
\* (whether it awaits its dependencies, what it may hand back)
Route(impl, schemas, responses, deps, awaits, results) ==
  [impl |-> impl, schemas |-> schemas, responses |-> responses,
   deps |-> deps, awaits |-> awaits, results |-> results]

NoRoute == Route("openapi", NoSchemas, NoResponses, <<>>, FALSE, PlainHandler)

\* routes that declare up to MaxDeclared field groups
ValidationRoutes ==
  UNION {{Route(impl, sc, NoResponses, <<>>, FALSE, PlainHandler) : sc \in SchemasFor(impl, D)} :
         impl \in Impls,
         D \in {X \in SUBSET GroupSet : Cardinality(X) <= MaxDeclared}}

\* routes that declare responses
ResponseRoutes ==
  {Route(impl, NoSchemas, rs, <<>>, FALSE, HandlerResults) : impl \in Impls, rs \in ResponseConfigs}

\* routes of the variant whose responses are schemas keyed by status
LegacyResponseRoutes ==
  {Route("legacy", NoSchemas, rs, <<>>, FALSE, HandlerResults) :
     rs \in UNION {[S -> {"json"}] : S \in SUBSET Statuses}}

\* routes with dependencies A and B, whose handler awaits them or not
DependencyRoutes ==
  UNION {{Route(impl, sc, NoResponses, <<"A", "B">>, aw, PlainHandler) :
            sc \in SchemasFor(impl, D)} :
         impl \in Impls, aw \in BOOLEAN, D \in {{}, {"params"}}}

\* the payload a client sends to a route: routes that declare no payload
\* group are sent none
TransportsFor(rt) ==
  IF DeclaredGroups(rt) \cap BodyGroups = {} THEN {NoTransport} ELSE Transports

\* what the providers of a request do: C resolves, resolves to undefined or
\* throws; A, B pass on what they get
ProviderBehaviours ==
  {[p \in Providers |-> IF p = "C" THEN o ELSE "value"] : o \in Outcomes}

NoBehaviour == [p \in Providers |-> "value"]

\* what the providers do in a request to a route with a wrapped dependency:
\* the provider of the principal varies
AuthBehaviours ==
  {[p \in Providers |-> IF p = "U" THEN o ELSE "value"] : o \in PrincipalOutcomes}

BehavioursFor(deps) ==
  IF deps = <<>> THEN {NoBehaviour}
  ELSE IF Range(deps) \cap Wrapped # {} THEN AuthBehaviours
  ELSE ProviderBehaviours

\* routes whose dependencies are wrapped by requiresAuth (and the plain
\* provider A beside one), whose handler awaits them or not
AuthRoutes ==
  {Route("openapi", sc, NoResponses, deps, aw, PlainHandler) :
     sc \in SchemasFor("openapi", {}) \cup SchemasFor("openapi", {"params"}),
     deps \in {<<"Reader">>, <<"Editor">>, <<"Member">>, <<"Editor", "A">>,
               <<"Reader", "Member">>},
     aw \in BOOLEAN}

\* one store shared by every request instead of the store of the current
\* asynchronous context
GetStoreShared(r) == "r1"

\* ---------------------------------------------------------- request scope
\* storage.getStore(): the Map bound to the asynchronous context of request r
GetStore(r) == r

\* storage.run(new Map(), fn)
RunWithRequestScope(ss, r) == [ss EXCEPT ![r] = EmptyMap]

\* a provider function runs from position next on: it stops before the
\* next ctx.get it makes, or settles with what the provider does
RunBody(act, r, p, o) ==
  IF act.next <= Len(Calls[p]) THEN [act EXCEPT !.pc = "body"]
  ELSE [act EXCEPT !.pc = "resume",
                   !.out = CASE o[p] = "undefined" -> Undefined
                             [] o[p] = "null" -> Null
                             [] o[p] = "throw" -> ErrorOf(p, r, act.n)
                             [] OTHER -> ValueOf(p, r, act.n)]

\* a resolveProvider that asks the Map whether it has the provider
\* (store.has(provider)), so that a memoized undefined is served too
EnterHas(as, inv, store, r, o, id) ==
  LET p == ProviderOf(id)
  IN IF p \in DOMAIN store
     THEN [acts |-> [as EXCEPT ![id] = [pc |-> "done", next |-> 0, out |-> store[p], n |-> 0]],
           inv |-> inv]
     ELSE [acts |-> [as EXCEPT ![id] =
                       RunBody([pc |-> "body", next |-> 1, out |-> NoResult,
                                n |-> inv[p] + 1], r, p, o)],
           inv |-> [inv EXCEPT ![p] = @ + 1]]

\* resolveProvider up to its await: a memoized value is returned, else the
\* provider function is called
Enter(as, inv, store, r, o, id) ==
  LET p == ProviderOf(id)
      cached == StoreGet(store, p)
  IN IF cached # Undefined
     THEN [acts |-> [as EXCEPT ![id] = [pc |-> "done", next |-> 0, out |-> cached, n |-> 0]],
           inv |-> inv]
     ELSE [acts |-> [as EXCEPT ![id] =
                       RunBody([pc |-> "body", next |-> 1, out |-> NoResult,
                                n |-> inv[p] + 1], r, p, o)],
           inv |-> [inv EXCEPT ![p] = @ + 1]]

RECURSIVE EnterAll(_, _, _, _, _, _)
\* Object.entries(dependencies).map(([k, p]) => [k, resolveProvider(p, ctx)])
EnterAll(as, inv, store, r, o, deps) ==
  IF deps = <<>> THEN [acts |-> as, inv |-> inv]
  ELSE LET st == Enter(as, inv, store, r, o, <<deps[1]>>)
       IN EnterAll(st.acts, st.inv, store, r, o, Tail(deps))

\* ------------------------------------------------------------- validation
\* Number(header('content-length') ?? (await arrayBuffer()).byteLength) > 0
BodyLengthPositive(tr) ==
  IF tr.header = "absent" THEN ~tr.empty ELSE tr.header = "positive"

\* validationSchema && (bodyLength > 0 || requestBody.required) in
\* parseRequestBody; the other variants read a declared payload group
\* whatever its length, and the other groups are never gated
ShouldParse(rt, g, tr) ==
  IF g \in BodyGroups /\ rt.impl = "openapi"
  THEN BodyLengthPositive(tr) \/ rt.schemas[g] = "required"
  ELSE TRUE

Reader(g) == IF g = "body" THEN "json" ELSE "parseBody"

\* what validating group g reads of the payload: the array buffer that
\* measures a payload sent without content-length, then the payload itself
PayloadReads(rt, g, tr) ==
  IF g \notin BodyGroups THEN {}
  ELSE (IF rt.impl = "openapi" /\ tr.header = "absent" THEN {<<g, "arrayBuffer">>} ELSE {})
       \cup (IF ShouldParse(rt, g, tr) THEN {<<g, Reader(g)>>} ELSE {})

\* what the wrapper keeps for a group whose schema accepted the input
Decoded(impl, g) ==
  IF g = "headers" /\ impl # "coreapi" THEN "merged" ELSE "decoded"

InitialParsed == [g \in GroupSet |-> IF g \in BodyGroups THEN "undefined" ELSE "raw"]

\* the object given to query.safeParseAsync
QuerySchemaInput(rawQs, rawQ) == rawQ

\* a failing group: the variant that fails fast throws at once
FailFast(impl) == impl \in {"honoapi", "legacy"}

\* a wrapper that lets a single failing group through
HasSeveralValidationErrors(errors) == Len(errors) > 1

\* Object.keys(validationErrors).length > 0
HasValidationErrors(errors) == Len(errors) > 0

\* the error thrown for the collected validation errors
ThrowRequestValidation(impl, errors) ==
  IF impl = "openapi" THEN RequestValidationError(400, errors)
  ELSE HonoHTTPException(400, JSONResponse(ErrorsMap(errors), StatusInit(400)), "", errors)

\* ---------------------------------------------------- response validation
\* a wrapper that sends what the handler returned although its schema
\* rejected it
ValidateResultLenient(rt, res) ==
  [ok |-> TRUE, response |-> res, error |-> NoError]

\* a wrapper that validates, but sends the handler's payload and not the
\* validator's output
ValidateResultRaw(rt, res) ==
  LET isJson == res.class = "JSONResponse"
      responseData == IF isJson THEN JSONParse(res.body) ELSE res.body.v
      statusCode == IF isJson THEN res.status ELSE 200
      parse == SafeParse(responseData)
      cause == << [grp |-> "response", issues |-> parse.issues] >>
  IN IF (isJson \/ res.class = "plain")
        /\ GetResponsesValidationSchema(rt.responses, statusCode) # "null"
     THEN IF parse.success
          THEN [ok |-> TRUE, response |-> JSONResponse(responseData, StatusInit(statusCode)),
                error |-> NoError]
          ELSE [ok |-> FALSE, response |-> NoResponse,
                error |-> ResponseValidationError(500, cause)]
     ELSE [ok |-> TRUE, response |-> res, error |-> NoError]

\* the variant whose responses are schemas keyed by status: an undeclared
\* status has no schema to call
ValidateResultLegacy(rt, res) ==
  LET isJson == res.class = "JSONResponse"
      \* a Response that is not a JsonResponse is itself the data: an
      \* object without own enumerable properties
      responseData == IF isJson THEN JSONParse(res.body)
                      ELSE IF res.class = "plain" THEN res.body.v
                      ELSE [n |-> "missing"]
      statusCode == IF isJson THEN res.status ELSE 200
      parse == SafeParse(responseData)
  IN IF rt.responses = NoResponses
     THEN [ok |-> TRUE, error |-> NoError,
           response |-> IF isJson THEN res ELSE JSONResponse(responseData, StatusInit(200))]
     ELSE IF statusCode \notin DOMAIN rt.responses
     THEN \* options.response[statusCode]!.safeParseAsync on undefined
          [ok |-> FALSE, response |-> NoResponse, error |-> PlainError(NoResult)]
     ELSE IF parse.success
     THEN [ok |-> TRUE, response |-> JSONResponse(parse.data, StatusInit(statusCode)),
           error |-> NoError]
     ELSE [ok |-> FALSE, response |-> NoResponse,
           error |-> HonoHTTPException(500,
                       JSONResponse([message |-> "Response validation failed",
                                     issues |-> parse.issues], StatusInit(500)),
                       "", <<>>)]

\* a wrapper that puts the decoded body in a response that keeps the
\* headers of the response the handler returned
ValidateResultKeepHeaders(rt, res) ==
  LET isJson == res.class = "JSONResponse"
      responseData == IF isJson THEN JSONParse(res.body) ELSE res.body.v
      statusCode == IF isJson THEN res.status ELSE 200
      parse == SafeParse(responseData)
      cause == << [grp |-> "response", issues |-> parse.issues] >>
  IN IF (isJson \/ res.class = "plain")
        /\ GetResponsesValidationSchema(rt.responses, statusCode) # "null"
     THEN IF parse.success
          THEN [ok |-> TRUE, error |-> NoError,
                response |-> JSONResponse(parse.data,
                               [status |-> statusCode, headers |-> res.headers])]
          ELSE [ok |-> FALSE, response |-> NoResponse,
                error |-> ResponseValidationError(500, cause)]
     ELSE [ok |-> TRUE, response |-> res, error |-> NoError]

\* the wrapper after the handler returned: the response to send, or the
\* error to throw
ValidateResult(rt, res) ==
  IF rt.impl = "legacy" THEN ValidateResultLegacy(rt, res) ELSE
  LET isJson == res.class = "JSONResponse"
      shouldValidate == isJson \/ res.class = "plain"
      responseData == IF isJson THEN JSONParse(res.body) ELSE res.body.v
      statusCode == IF isJson THEN res.status ELSE 200
      schema == GetResponsesValidationSchema(rt.responses, statusCode)
      parse == SafeParse(responseData)
      cause == << [grp |-> "response", issues |-> parse.issues] >>
  IN IF shouldValidate /\ schema # "null"
     THEN IF parse.success
          THEN [ok |-> TRUE, response |-> JSONResponse(parse.data, StatusInit(statusCode)),
                error |-> NoError]
          ELSE [ok |-> FALSE, response |-> NoResponse,
                error |-> CASE rt.impl = "openapi" -> ResponseValidationError(500, cause)
                            [] rt.impl = "coreapi" ->
                                 HonoHTTPException(500, NoResponse, "Internal Server Error", cause)
                            [] OTHER -> HonoHTTPException(500, NoResponse, "", cause)]
     ELSE [ok |-> TRUE, response |-> res, error |-> NoError]

\* the error handler of the application the route is registered on
OnError(rt, handlers, error) ==
  IF rt.impl = "openapi" THEN OnErrorRegistered(handlers, error) ELSE OnErrorDefault(error)

\* ---------------------------------------------------------------- actions
\* a request arrives: the wrapper runs in a fresh request scope, up to the
\* first group that has a schema
Receive(r) ==
  /\ r \in pending
  /\ \E rt \in routes :
       \E tr \in TransportsFor(rt) :
         \E q \in queries :
           LET first == NextDeclared(rt, 1)
           IN /\ pending' = pending \ {r}
              /\ route' = [route EXCEPT ![r] = rt]
              /\ transport' = [transport EXCEPT ![r] = tr]
              /\ rawQueries' = [rawQueries EXCEPT ![r] = q]
              /\ rawQuery' = [rawQuery EXCEPT ![r] =
                                 IF first >= 2 THEN CollapseQuery(q) ELSE NoQuery]
              /\ stores' = RunWithRequestScope(stores, r)
              /\ gi' = [gi EXCEPT ![r] = first]
              /\ pc' = [pc EXCEPT ![r] =
                           IF first > Len(Groups) THEN "validated" ELSE "validating"]
  /\ UNCHANGED <<envVars, queryInput, validated, validationErrors, reads, parsed, acts,
                 invoked, outcome, handlerCalls, result, thrown, response>>

\* the schema of the next declared group runs on what the transport holds
ValidateGroup(r) ==
  /\ pc[r] = "validating"
  /\ LET rt == route[r]
         g == Groups[gi[r]]
         tr == transport[r]
         gate == ShouldParse(rt, g, tr)
         nxt == NextDeclared(rt, gi[r] + 1)
     IN \E n \in 0..MaxIssues :
          /\ gate \/ n = 0
          /\ reads' = [reads EXCEPT ![r] = @ \cup PayloadReads(rt, g, tr)]
          /\ validated' = [validated EXCEPT ![r] = IF gate THEN @ \cup {g} ELSE @]
          /\ queryInput' = [queryInput EXCEPT ![r] =
                               IF g = "query" THEN QuerySchemaInput(rawQueries[r], rawQuery[r])
                               ELSE @]
          /\ IF gate /\ n > 0 /\ FailFast(rt.impl)
             THEN /\ thrown' = [thrown EXCEPT ![r] =
                                  HonoHTTPException(400, NoResponse, "",
                                    << [grp |-> g, issues |-> IssuesOf(g, n)] >>)]
                  /\ pc' = [pc EXCEPT ![r] = "failed"]
                  /\ UNCHANGED <<validationErrors, parsed, gi, rawQuery>>
             ELSE /\ validationErrors' = [validationErrors EXCEPT ![r] =
                        IF gate /\ n > 0
                        THEN Append(@, [grp |-> g, issues |-> IssuesOf(g, n)])
                        ELSE @]
                  /\ parsed' = [parsed EXCEPT ![r][g] =
                                   IF gate /\ n = 0 THEN Decoded(rt.impl, g) ELSE @]
                  /\ gi' = [gi EXCEPT ![r] = nxt]
                  /\ rawQuery' = [rawQuery EXCEPT ![r] =
                                     IF gi[r] = 1 THEN CollapseQuery(rawQueries[r]) ELSE @]
                  /\ pc' = [pc EXCEPT ![r] =
                               IF nxt > Len(Groups) THEN "validated" ELSE "validating"]
                  /\ UNCHANGED thrown
  /\ UNCHANGED <<envVars, pending, route, transport, rawQueries, stores, acts, invoked,
                 outcome, handlerCalls, result, response>>

\* after the last group: throw the collected errors, or start resolving
\* every declared dependency and call the handler
CheckAndDispatch(r) ==
  /\ pc[r] = "validated"
  /\ IF HasValidationErrors(validationErrors[r])
     THEN /\ thrown' = [thrown EXCEPT ![r] =
                          ThrowRequestValidation(route[r].impl, validationErrors[r])]
          /\ pc' = [pc EXCEPT ![r] = "failed"]
          /\ UNCHANGED <<acts, invoked, outcome, handlerCalls>>
     ELSE /\ \E o \in BehavioursFor(route[r].deps) :
               LET st == EnterAll(acts[r], invoked[r], stores[GetStore(r)], r, o,
                                  route[r].deps)
               IN /\ outcome' = [outcome EXCEPT ![r] = o]
                  /\ acts' = [acts EXCEPT ![r] = st.acts]
                  /\ invoked' = [invoked EXCEPT ![r] = st.inv]
          /\ handlerCalls' = [handlerCalls EXCEPT ![r] = @ + 1]
          /\ pc' = [pc EXCEPT ![r] = "handling"]
          /\ UNCHANGED thrown
  /\ UNCHANGED <<envVars, pending, route, transport, rawQueries, rawQuery, queryInput, gi,
                 validated, validationErrors, reads, parsed, stores, result, response>>

pipelineVars == <<pending, pc, route, transport, rawQueries, rawQuery, queryInput, gi,
                  validated, validationErrors, reads, parsed, outcome, handlerCalls,
                  result, thrown, response>>

\* a provider function calls ctx.get on the next provider it needs
Call(r, id) ==
  /\ acts[r][id].pc = "body"
  /\ acts[r][id].next <= Len(Calls[ProviderOf(id)])
  /\ LET child == Append(id, Calls[ProviderOf(id)][acts[r][id].next])
         st == Enter(acts[r], invoked[r], stores[GetStore(r)], r, outcome[r], child)
     IN /\ acts' = [acts EXCEPT ![r] = [st.acts EXCEPT ![id].pc = "await"]]
        /\ invoked' = [invoked EXCEPT ![r] = st.inv]
  /\ UNCHANGED <<envVars, pipelineVars, stores>>

\* the awaited ctx.get settles: a rejection is thrown in the provider, a
\* value lets it run on
AwaitReturn(r, id) ==
  /\ acts[r][id].pc = "await"
  /\ LET child == acts[r][Append(id, Calls[ProviderOf(id)][acts[r][id].next])]
     IN /\ child.pc = "done"
        /\ acts' = [acts EXCEPT ![r][id] =
                      IF child.out.kind = "error"
                      THEN [@ EXCEPT !.pc = "resume", !.out = child.out]
                      ELSE IF ProviderOf(id) \in Wrapped
                      THEN [@ EXCEPT !.pc = "resume",
                                     !.out = RequiresAuth(kSecurityMeta[ProviderOf(id)],
                                               child.out, UserScopes(outcome[r]["U"]),
                                               ProviderOf(id), r, acts[r][id].n)]
                      ELSE RunBody([@ EXCEPT !.next = @ + 1], r, ProviderOf(id), outcome[r])]
  /\ UNCHANGED <<envVars, pipelineVars, stores, invoked>>

\* resolveProvider after its await: store.set(provider, value), unless the
\* await threw
Resume(r, id) ==
  /\ acts[r][id].pc = "resume"
  /\ acts' = [acts EXCEPT ![r][id].pc = "done"]
  /\ stores' = IF acts[r][id].out.kind = "error" THEN stores
               ELSE [stores EXCEPT ![GetStore(r)] =
                       StoreSet(@, ProviderOf(id), acts[r][id].out)]
  /\ UNCHANGED <<envVars, pipelineVars, invoked>>

TopLevel(rt) == {<<p>> : p \in Range(rt.deps)}

\* the rejections among the dependencies the handler was given, in
\* declaration order
RejectedDeps(as, deps) ==
  SelectSeq(deps, LAMBDA p : as[<<p>>].pc = "done" /\ as[<<p>>].out.kind = "error")

\* the handler settles; a handler that awaits its dependencies settles after
\* them and throws the first rejection it meets
HandlerReturn(r) ==
  /\ pc[r] = "handling"
  /\ route[r].awaits => \A id \in TopLevel(route[r]) : acts[r][id].pc = "done"
  /\ IF route[r].awaits /\ RejectedDeps(acts[r], route[r].deps) # <<>>
     THEN /\ thrown' = [thrown EXCEPT ![r] =
                 PlainError(acts[r][<<RejectedDeps(acts[r], route[r].deps)[1]>>].out)]
          /\ pc' = [pc EXCEPT ![r] = "failed"]
          /\ UNCHANGED result
     ELSE \E hr \in route[r].results :
            IF hr.kind = "throw"
            THEN /\ thrown' = [thrown EXCEPT ![r] =
                        IF "error" \in DOMAIN hr THEN hr.error ELSE PlainError(NoResult)]
                 /\ pc' = [pc EXCEPT ![r] = "failed"]
                 /\ UNCHANGED result
            ELSE /\ result' = [result EXCEPT ![r] = ResultValue(hr)]
                 /\ pc' = [pc EXCEPT ![r] = "returned"]
                 /\ UNCHANGED thrown
  /\ UNCHANGED <<envVars, pending, route, transport, rawQueries, rawQuery, queryInput, gi,
                 validated, validationErrors, reads, parsed, stores, acts, invoked,
                 outcome, handlerCalls, response>>

\* the wrapper validates what the handler returned and answers
ValidateResponse(r) ==
  /\ pc[r] = "returned"
  /\ LET v == ValidateResult(route[r], result[r])
     IN IF v.ok
        THEN /\ response' = [response EXCEPT ![r] = v.response]
             /\ pc' = [pc EXCEPT ![r] = "responded"]
             /\ UNCHANGED thrown
        ELSE /\ thrown' = [thrown EXCEPT ![r] = v.error]
             /\ pc' = [pc EXCEPT ![r] = "failed"]
             /\ UNCHANGED response
  /\ UNCHANGED <<envVars, pending, route, transport, rawQueries, rawQuery, queryInput, gi,
                 validated, validationErrors, reads, parsed, stores, acts, invoked,
                 outcome, handlerCalls, result>>

\* the error handler answers for the wrapper that threw
RespondError(r) ==
  /\ pc[r] = "failed"
  /\ response' = [response EXCEPT ![r] = OnError(route[r], errorHandlers, thrown[r])]
  /\ pc' = [pc EXCEPT ![r] = "errorResponded"]
  /\ UNCHANGED <<envVars, pending, route, transport, rawQueries, rawQuery, queryInput, gi,
                 validated, validationErrors, reads, parsed, stores, acts, invoked,
                 outcome, handlerCalls, result, thrown>>

\* --------------------------------------------------------- specifications
InitWith(rts, qs, rs) ==
  /\ routes = rts
  /\ queries = qs
  /\ pending = rs
  /\ errorHandlers = DefaultErrorHandlers
  /\ pc = [r \in Reqs |-> "idle"]
  /\ route = [r \in Reqs |-> NoRoute]
  /\ transport = [r \in Reqs |-> NoTransport]
  /\ rawQueries = [r \in Reqs |-> EmptyQuery]
  /\ rawQuery = [r \in Reqs |-> NoQuery]
  /\ queryInput = [r \in Reqs |-> NoQuery]
  /\ gi = [r \in Reqs |-> 1]
  /\ validated = [r \in Reqs |-> {}]
  /\ validationErrors = [r \in Reqs |-> <<>>]
  /\ reads = [r \in Reqs |-> {}]
  /\ parsed = [r \in Reqs |-> InitialParsed]
  /\ stores = [r \in Reqs |-> EmptyMap]
  /\ acts = [r \in Reqs |-> [id \in ActIds |-> NoAct]]
  /\ invoked = [r \in Reqs |-> [p \in Providers |-> 0]]
  /\ outcome = [r \in Reqs |-> NoBehaviour]
  /\ handlerCalls = [r \in Reqs |-> 0]
  /\ result = [r \in Reqs |-> NoResponse]
  /\ thrown = [r \in Reqs |-> NoError]
  /\ response = [r \in Reqs |-> NoResponse]
  /\ globalOpenApiOptions = NoGlobalOptions
  /\ openAPIRoutes = <<>>
  /\ document = NoDocument
  /\ registerCalls = <<>>
  /\ served = NoServed
  /\ instances = <<>>

\* one request to any of the routes
Init == InitWith(ValidationRoutes \cup ResponseRoutes \cup LegacyResponseRoutes
                   \cup DependencyRoutes,
                 {EmptyQuery}, {"r1"})

Next ==
  \E r \in Reqs :
    \/ Receive(r)
    \/ ValidateGroup(r)
    \/ CheckAndDispatch(r)
    \/ HandlerReturn(r)
    \/ ValidateResponse(r)
    \/ RespondError(r)
    \/ \E id \in ActIds :
         \/ Call(r, id)
         \/ AwaitReturn(r, id)
         \/ Resume(r, id)

Spec == Init /\ [][Next]_vars

\* one request to a route of the wrapper of core/openapi.ts: with declared
\* responses, with dependencies, or with one or two declared field groups
LiveRoutes ==
  {rt \in ResponseRoutes \cup DependencyRoutes : rt.impl = "openapi"} \cup
  UNION {{Route("openapi", sc, NoResponses, <<>>, FALSE, PlainHandler) :
            sc \in SchemasFor("openapi", D)} :
         D \in {{"params"}, {"query", "body"}}}

InitLive == InitWith(LiveRoutes, {EmptyQuery}, {"r1"})

\* the continuations of a request the event loop runs once they are ready:
\* those of the wrapper, and those of the provider resolutions
WrapperStep(r) ==
  \/ ValidateGroup(r)
  \/ CheckAndDispatch(r)
  \/ HandlerReturn(r)
  \/ ValidateResponse(r)
  \/ RespondError(r)

ProviderStep(r) == \E id \in ActIds : Call(r, id) \/ AwaitReturn(r, id) \/ Resume(r, id)

\* every ready continuation is eventually run: validators, providers and
\* handler settle
SpecLive ==
  /\ InitLive
  /\ [][Next]_vars
  /\ \A r \in Reqs : WF_vars(WrapperStep(r)) /\ WF_vars(ProviderStep(r))

\* two requests with dependencies, their steps interleaved
ScopeRoutes ==
  {Route("openapi", sc, NoResponses, <<"A", "B">>, TRUE, PlainHandler) :
     sc \in SchemasFor("openapi", {"params"})}

InitScope == InitWith(ScopeRoutes, {EmptyQuery}, Reqs)

SpecScope == InitScope /\ [][Next]_vars

\* one request to a route with dependencies wrapped by requiresAuth
InitAuth == InitWith(AuthRoutes, {EmptyQuery}, {"r1"})

SpecAuth == InitAuth /\ [][Next]_vars

\* the application registers responders while it is set up, then serves one
\* request to a route whose handler returns or throws
RegisterErrorHandler ==
  /\ Len(registerCalls) < MaxRegistrations
  /\ \A r \in Reqs : pc[r] = "idle"
  /\ \E type \in RegisteredTypes, handler \in CustomHandlers :
       /\ errorHandlers' = MapSet(errorHandlers, type, handler)
       /\ registerCalls' = Append(registerCalls, [type |-> type, handler |-> handler])
  /\ UNCHANGED <<routes, queries, pipelineVars, stores, acts, invoked,
                 globalOpenApiOptions, openAPIRoutes, document, served, instances>>

ErrorRoutes ==
  {Route("openapi", sc, NoResponses, <<>>, FALSE, ThrowingResults) :
     sc \in SchemasFor("openapi", {})} \cup
  {Route("openapi", sc, NoResponses, <<"A">>, TRUE, ThrowingResults) :
     sc \in SchemasFor("openapi", {"params"})}

InitErrors == InitWith(ErrorRoutes, {EmptyQuery}, {"r1"})

NextErrors == RegisterErrorHandler \/ Next

SpecErrors == InitErrors /\ [][NextErrors]_vars

\* the documentation side: configure the globals, register routes, generate
\* the document
requestVars == <<routes, queries, errorHandlers, pipelineVars, stores, acts, invoked,
                 registerCalls>>

ConfigureOpenAPI ==
  /\ globalOpenApiOptions = NoGlobalOptions
  /\ document = NoDocument
  /\ \E options \in GlobalOptions \ {NoGlobalOptions} :
       globalOpenApiOptions' = options
  /\ UNCHANGED <<requestVars, openAPIRoutes, document, served, instances>>

RegisterOpenApiRoute ==
  /\ document = NoDocument
  /\ \E path \in DocPaths, config \in RouteConfigs :
       /\ \A i \in DOMAIN openAPIRoutes : openAPIRoutes[i].path # path
       /\ openAPIRoutes' = PushRoute(openAPIRoutes,
                                 OpenApiRoute(path, config, globalOpenApiOptions))
  /\ UNCHANGED <<requestVars, globalOpenApiOptions, document, served, instances>>

GenerateDocument ==
  /\ document = NoDocument
  /\ document' = GenerateOpenAPI(openAPIRoutes, globalOpenApiOptions)
  /\ UNCHANGED <<requestVars, globalOpenApiOptions, openAPIRoutes, served, instances>>

\* the wrapper of a registered route validates a JSON response of some
\* status with the schema its responses hold for that status
ServeResponse ==
  /\ served = NoServed
  /\ \E i \in DOMAIN openAPIRoutes, status \in Statuses :
       served' = [path |-> openAPIRoutes[i].path, status |-> status,
                  schema |-> ValidationSchemaOf(openAPIRoutes[i].responses, status),
                  params |-> openAPIRoutes[i].params]
  /\ UNCHANGED <<requestVars, globalOpenApiOptions, openAPIRoutes, document, instances>>

InitDoc == InitWith({}, {EmptyQuery}, {})

NextDoc == ConfigureOpenAPI \/ RegisterOpenApiRoute \/ GenerateDocument \/ ServeResponse

SpecDoc == InitDoc /\ [][NextDoc]_vars

\* ------------------------------------------------------------- instances
\* the process: BetterAPI instances are constructed, each registers routes,
\* the document is generated and requests are served, in any order
MaxInstances == 2

RegistryPaths == {"/a", "/b"}

\* params schemas a constructor is given and a route declares; both
\* declare the key id, each with its own definition
GlobalParamSchemas ==
  {ZodObject([k \in {"id", "lang"} |-> IF k = "id" THEN "global.uuid" ELSE "global.enum"])}

LocalParamSchemas ==
  {ZodObject([k \in {"id", "page"} |-> IF k = "id" THEN "route.string" ELSE "route.int"])}

RequestParams(params) == [t |-> "requestParams", params |-> params]

\* what new BetterAPI(options?) is given
InstanceOptions ==
  {UndefinedValue} \cup
  {[openapi |-> "T1", globalResponses |-> UndefinedValue,
    globalSecurity |-> UndefinedValue,
    globalRequestParams |-> RequestParams(g)] : g \in GlobalParamSchemas} \cup
  {[openapi |-> "T2", globalResponses |-> StatusMap([st \in {404} |-> Zod("S2")]),
    globalSecurity |-> UndefinedValue, globalRequestParams |-> UndefinedValue],
   [openapi |-> "T2", globalResponses |-> StatusMap([st \in {400} |-> Zod("S1")]),
    globalSecurity |-> UndefinedValue,
    globalRequestParams |-> RequestParams(UndefinedValue)]}

RegistryConfigs ==
  {[NoConfig EXCEPT !.params = p] : p \in {UndefinedValue} \cup LocalParamSchemas} \cup
  {[NoConfig EXCEPT !.responses = Zod("S1")]}

\* setDefaultGlobalResponses: the options get a 400 and a 500 response
\* where they have none
SetDefaultGlobalResponses(options) ==
  LET given == IF options.globalResponses.t = "undefined" THEN <<>>
               ELSE options.globalResponses.m
  IN [options EXCEPT !.globalResponses =
        StatusMap([st \in (DOMAIN given) \cup {400, 500} |->
                     IF st \in DOMAIN given THEN given[st]
                     ELSE IF st = 400 THEN Zod("RequestValidationFailed")
                     ELSE Zod("InternalServerError")])]

\* a constructor that keeps the options the process already has
ConstructBetterAPIKeepFirst ==
  /\ Len(instances) < MaxInstances
  /\ \E options \in InstanceOptions :
       /\ globalOpenApiOptions' =
            IF options = UndefinedValue \/ globalOpenApiOptions # NoGlobalOptions
            THEN globalOpenApiOptions
            ELSE SetDefaultGlobalResponses(options)
       /\ instances' = Append(instances, [options |-> options, router |-> <<>>])
  /\ UNCHANGED <<requestVars, openAPIRoutes, document, served>>

\* new BetterAPI(options): the options, when given, become the options of
\* the process
ConstructBetterAPI ==
  /\ Len(instances) < MaxInstances
  /\ \E options \in InstanceOptions :
       /\ globalOpenApiOptions' =
            IF options = UndefinedValue THEN globalOpenApiOptions
            ELSE SetDefaultGlobalResponses(options)
       /\ instances' = Append(instances, [options |-> options, router |-> <<>>])
  /\ UNCHANGED <<requestVars, openAPIRoutes, document, served>>

\* app.get(path, handler, config) on instance x: the route is pushed to the
\* registry and its wrapper, which holds the same merged params schema, is
\* put on the router of the instance
RegisterRoute ==
  /\ \E x \in DOMAIN instances, path \in RegistryPaths, config \in RegistryConfigs :
       LET rt == OpenApiRoute(path, config, globalOpenApiOptions)
       IN /\ \A i \in DOMAIN openAPIRoutes : openAPIRoutes[i].path # path
          /\ openAPIRoutes' = PushRoute(openAPIRoutes, rt)
          /\ instances' = [instances EXCEPT ![x].router =
                             Append(@, [path |-> path, params |-> rt.params,
                                        responses |-> rt.responses])]
  /\ UNCHANGED <<requestVars, globalOpenApiOptions, document, served>>

\* generateDocument(), whenever it is asked for
RequestDocument ==
  /\ document' = GenerateOpenAPI(openAPIRoutes, globalOpenApiOptions)
  /\ UNCHANGED <<requestVars, globalOpenApiOptions, openAPIRoutes, served, instances>>

\* a request served by the wrapper a route of instance x has on its router:
\* the wrapper validates the params with the schema it holds, and a JSON
\* response of status 200 with the schema its responses have for it
ServeRequest ==
  /\ \E x \in DOMAIN instances :
       \E i \in DOMAIN instances[x].router :
         LET wrapper == instances[x].router[i]
         IN served' = [path |-> wrapper.path, status |-> 200,
                       schema |-> ValidationSchemaOf(wrapper.responses, 200),
                       params |-> wrapper.params]
  /\ UNCHANGED <<requestVars, globalOpenApiOptions, openAPIRoutes, document, instances>>

InitRegistry == InitWith({}, {EmptyQuery}, {})

NextRegistry == ConstructBetterAPI \/ RegisterRoute \/ RequestDocument \/ ServeRequest

SpecRegistry == InitRegistry /\ [][NextRegistry]_vars

\* one request with any query string
QueryRoutes ==
  UNION {{Route(impl, sc, NoResponses, <<>>, FALSE, PlainHandler) :
            sc \in SchemasFor(impl, D)} :
         impl \in Impls, D \in SUBSET {"params", "query"}}
  \cup {Route("openapi", NoSchemas, NoResponses, <<"A">>, TRUE, PlainHandler)}

InitQuery == InitWith(QueryRoutes, QueryInputs, {"r1"})

SpecQuery == InitQuery /\ [][Next]_vars

\* ================================================================= claims
Settled(r, id) == acts[r][id].pc = "done"

\* ---------------------------------------------------------------------
\* C1: within one request scope, whatever the interleaving of the provider
\* resolutions (A and B started at once by the wrapper, each requesting C
\* through ctx.get before C's first evaluation has completed), the function
\* of provider C is invoked exactly once: never twice, and once as soon as A
\* and B have both been resolved.
C1_InvokedOnce ==
  \A r \in Reqs :
    /\ invoked[r]["C"] <= 1
    /\ (route[r].deps = <<"A", "B">> /\ Settled(r, <<"A">>) /\ Settled(r, <<"B">>))
         => invoked[r]["C"] = 1

\* ---------------------------------------------------------------------
\* C2: request scopes are isolated. Whatever the interleaving of two
\* requests, every value a resolution of request r observes and every entry
\* of r's store was produced by a provider call of r itself (counted by r's
\* own counter, which starts from zero), and the scope a request starts in
\* holds no entry.
C2_ScopesIsolated ==
  \A r \in Reqs :
    /\ \A p \in DOMAIN stores[r] :
         stores[r][p].kind = "value" =>
           /\ stores[r][p].req = r
           /\ stores[r][p].inv \in 1..invoked[r][stores[r][p].prov]
    /\ \A id \in ActIds :
         acts[r][id].out.kind = "value" =>
           /\ acts[r][id].out.req = r
           /\ acts[r][id].out.inv \in 1..invoked[r][acts[r][id].out.prov]
    /\ pc[r] \in {"idle", "validating", "validated"} =>
           /\ stores[r] = EmptyMap
           /\ \A p \in Providers : invoked[r][p] = 0

\* both requests are resolving their dependencies at the same time, each
\* has memoized its own C, and r2 has been served a memoized value
C2_Witness ==
  /\ pc["r1"] = "handling" /\ pc["r2"] = "handling"
  /\ "C" \in DOMAIN stores["r1"] /\ "C" \in DOMAIN stores["r2"]
  /\ stores["r1"]["C"].kind = "value" /\ stores["r2"]["C"].kind = "value"
  /\ \E id \in ActIds :
       acts["r2"][id].pc = "done" /\ acts["r2"][id].n = 0 /\ acts["r2"][id].out.kind = "value"
  /\ \E id \in ActIds : acts["r1"][id].pc \in {"body", "await", "resume"}

\* ---------------------------------------------------------------------
\* C3: if provider C fails and both A and B request C within one request, C
\* is evaluated exactly once, A and B observe the same rejection, and a
\* later resolution of C in that request does not evaluate C again.
C3_FailureMemoized ==
  \A r \in Reqs :
    (outcome[r]["C"] = "throw" /\ route[r].deps = <<"A", "B">>) =>
      /\ invoked[r]["C"] <= 1
      /\ (Settled(r, <<"A">>) /\ Settled(r, <<"B">>)) =>
            /\ acts[r][<<"A">>].out.kind = "error"
            /\ acts[r][<<"A">>].out = acts[r][<<"B">>].out

\* the groups the validation errors of request r are filed under
ErrorGroups(r) == {validationErrors[r][i].grp : i \in 1..Len(validationErrors[r])}

\* a validator of request r reported issues: they were collected, or thrown
\* at once by the wrapper that fails fast
RequestInvalid(r) ==
  \/ validationErrors[r] # <<>>
  \/ /\ pc[r] \in {"failed", "errorResponded"}
     /\ handlerCalls[r] = 0
     /\ thrown[r].errors # <<>>

C5_CollectAll ==
  \A r \in Reqs :
    pc[r] \notin {"idle", "validating"} =>
      /\ \A g \in DeclaredGroups(route[r]) :
           (g \notin BodyGroups \/ route[r].schemas[g] = "required") => g \in validated[r]
      /\ ErrorGroups(r) \subseteq validated[r]
      /\ \A g \in validated[r] :
           (g \in ErrorGroups(r)) # (parsed[r][g] \in {"decoded", "merged"})
      /\ (pc[r] \in {"failed", "errorResponded"} /\ handlerCalls[r] = 0) =>
           validationErrors[r] # <<>>

\* ---------------------------------------------------------------------
\* C6: a payload group (body, form, file, files) is read from the
\* transport only if its schema is declared and the content length is
\* positive or the body is declared required. A declared optional payload
\* group of a request with no payload is not read and not validated, its
\* value stays undefined and nothing is filed under it.
C6_PayloadGate ==
  \A r \in Reqs :
    \A g \in BodyGroups :
      /\ (\E k \in {"arrayBuffer", "json", "parseBody"} : <<g, k>> \in reads[r]) =>
           /\ Declared(route[r], g)
           /\ BodyLengthPositive(transport[r]) \/ route[r].schemas[g] = "required"
      /\ (pc[r] \notin {"idle", "validating"} /\ Declared(route[r], g)
            /\ route[r].schemas[g] = "optional" /\ transport[r].empty) =>
           /\ \A k \in {"arrayBuffer", "json", "parseBody"} : <<g, k>> \notin reads[r]
           /\ g \notin validated[r]
           /\ parsed[r][g] = "undefined"
           /\ g \notin ErrorGroups(r)

\* ---------------------------------------------------------------------
\* C7: the query object is built from the transport's per-key value lists
\* by collapsing: a key with exactly one value maps to that single value,
\* a key with two or more values maps to the array of all its values in
\* order. This object is what the query schema is given, and what the
\* handler receives as its query when no query schema is declared.
C7_QueryCollapsed ==
  \A r \in Reqs :
    /\ rawQuery[r] # NoQuery =>
         /\ DOMAIN rawQuery[r] = DOMAIN rawQueries[r]
         /\ \A k \in DOMAIN rawQueries[r] :
              /\ Len(rawQueries[r][k]) = 1 =>
                   rawQuery[r][k] = [t |-> "scalar", v |-> <<rawQueries[r][k][1]>>]
              /\ Len(rawQueries[r][k]) >= 2 =>
                   rawQuery[r][k] = [t |-> "array", v |-> rawQueries[r][k]]
    /\ "query" \in validated[r] =>
         /\ rawQuery[r] # NoQuery
         /\ queryInput[r] = rawQuery[r]
    /\ (handlerCalls[r] > 0 /\ ~Declared(route[r], "query")) =>
         /\ rawQuery[r] # NoQuery
         /\ parsed[r]["query"] = "raw"

\* a query schema was given an object built from one key with a single
\* value and one key with several values
C7_Witness ==
  \E r \in Reqs :
    /\ "query" \in validated[r]
    /\ DOMAIN rawQueries[r] = QKeys
    /\ Len(rawQueries[r]["k1"]) = 1
    /\ Len(rawQueries[r]["k2"]) >= 2
    /\ queryInput[r]["k1"].t = "scalar"
    /\ queryInput[r]["k2"].t = "array"

\* the failures the validators of request r reported, in order
Failures(r) ==
  IF validationErrors[r] # <<>> THEN validationErrors[r] ELSE thrown[r].errors

\* ---------------------------------------------------------------------
\* C8: the body of the 400 response to an invalid request is the JSON
\* object { message, error }; error holds exactly one entry per issue of
\* every failing group, tagged with in = the group's name, and no entry
\* for a group that passed (a single issue of the body group alone gives
\* exactly one entry, whose in is "body").
C8_ErrorBody ==
  \A r \in Reqs :
    (pc[r] = "errorResponded" /\ RequestInvalid(r)) =>
      /\ response[r].status = 400
      /\ response[r].body.t = "json"
      /\ DOMAIN response[r].body.v = {"message", "error"}
      /\ LET e == response[r].body.v.error
             f == Failures(r)
         IN /\ \A k \in 1..Len(e) :
                 \E i \in 1..Len(f) :
                   e[k].in = f[i].grp /\ e[k].issue \in Range(f[i].issues)
            /\ \A i \in 1..Len(f) :
                 Cardinality({k \in 1..Len(e) : e[k].in = f[i].grp}) = Len(f[i].issues)

\* what response validation works on: the status and the payload of what
\* the handler returned, and whether a JSON schema is declared for it
ResultStatus(r) == IF result[r].class = "JSONResponse" THEN result[r].status ELSE 200

ResultPayload(r) == result[r].body.v

ResultChecked(r) ==
  /\ pc[r] \in {"returned", "responded", "failed", "errorResponded"}
  /\ result[r].class \in {"JSONResponse", "plain"}
  /\ ResultStatus(r) \in DOMAIN route[r].responses
  /\ route[r].responses[ResultStatus(r)] = "json"

\* ---------------------------------------------------------------------
\* C9: when the handler's result is subject to response validation and
\* its payload violates the schema declared for its status, the request
\* ends with a ResponseValidationError of status 500 that carries the
\* validator's issue list: the answer has status 500, and the handler's
\* payload is never sent.
C9_InvalidResponseRejected ==
  \A r \in Reqs :
    (ResultChecked(r) /\ ~SafeParse(ResultPayload(r)).success) =>
      /\ pc[r] # "responded"
      /\ pc[r] \in {"failed", "errorResponded"} =>
           /\ thrown[r].status = 500
           /\ IF route[r].impl = "legacy"
              THEN thrown[r].res.body.v.issues = SafeParse(ResultPayload(r)).issues
              ELSE thrown[r].errors =
                     << [grp |-> "response", issues |-> SafeParse(ResultPayload(r)).issues] >>
           /\ route[r].impl = "openapi" => thrown[r].class = "ResponseValidationError"
      /\ pc[r] # "errorResponded" => response[r] = NoResponse
      /\ pc[r] = "errorResponded" =>
           /\ response[r].status = 500
           /\ response[r].body # [t |-> "json", v |-> ResultPayload(r)]

\* a payload its schema rejects has been answered with the error response
C9_Witness ==
  \E r \in Reqs :
    /\ pc[r] = "errorResponded"
    /\ ResultChecked(r)
    /\ ~SafeParse(ResultPayload(r)).success
    /\ route[r].impl = "openapi"
    /\ response[r].status = 500

\* ---------------------------------------------------------------------
\* C10: when the handler's result is subject to response validation and
\* passes, the response sent carries the validator's decoded output (with
\* defaults and coercions; equal to the payload when the payload decodes
\* to itself), the status the handler returned (200 for a plain value)
\* and a JSON content type.
C10_ValidResponseDecoded ==
  \A r \in Reqs :
    (ResultChecked(r) /\ SafeParse(ResultPayload(r)).success) =>
      /\ pc[r] \in {"returned", "responded"}
      /\ pc[r] = "responded" =>
           /\ response[r].body = [t |-> "json", v |-> SafeParse(ResultPayload(r)).data]
           /\ ResultPayload(r).n = "num7" => response[r].body.v = ResultPayload(r)
           /\ response[r].status = ResultStatus(r)
           /\ "Content-Type" \in DOMAIN response[r].headers
           /\ response[r].headers["Content-Type"] = "application/json"

\* a JSONResponse of status 201 whose payload needs a coercion has been
\* sent, and so has a plain value that needs the default
C10_Witness ==
  /\ \E r \in Reqs :
       /\ pc[r] = "responded"
       /\ ResultChecked(r)
       /\ result[r].class = "JSONResponse"
       /\ ResultStatus(r) = 201
       /\ ResultPayload(r).n = "str7"
       /\ response[r].body.v.n = "num7"

\* ---------------------------------------------------------------------
\* C11: a handler result that is a pre-built transport response (any
\* instance of Response, the JSON responses built by Context.json
\* included) is passed through unchanged and never validated against the
\* route's response schema: what is sent is the handler's response itself,
\* and response validation never fails the request.
C11_ResponsePassedThrough ==
  \A r \in Reqs :
    (pc[r] \in {"returned", "responded", "failed", "errorResponded"}
       /\ result[r].class \in {"JSONResponse", "TextResponse"}) =>
      /\ pc[r] \in {"returned", "responded"}
      /\ pc[r] = "responded" => response[r] = result[r]

\* the status of what the handler returned: 200 for a plain value
ProducedStatus(r) == IF result[r].class = "plain" THEN 200 ELSE result[r].status

\* ---------------------------------------------------------------------
\* C12: when the route declares response schemas but none with content
\* type application/json for the status the handler produced, the result
\* is returned unvalidated and unchanged and no error is raised.
C12_UndeclaredStatusUnpoliced ==
  \A r \in Reqs :
    (pc[r] \in {"returned", "responded", "failed", "errorResponded"}
       /\ result[r].class # "none"
       /\ route[r].responses # NoResponses
       /\ ~(ProducedStatus(r) \in DOMAIN route[r].responses
             /\ route[r].responses[ProducedStatus(r)] = "json")) =>
      /\ pc[r] \in {"returned", "responded"}
      /\ pc[r] = "responded" => response[r] = result[r]

\* the scopes a principal of each kind was granted
Granted(k) ==
  CASE k = "scopesR" -> {"read"}
    [] k = "scopesRW" -> {"read", "write"}
    [] OTHER -> {}

\* the wrapped provider w of request r has run its checks on the principal
AuthChecked(r, w) ==
  /\ acts[r][<<w>>].pc \in {"resume", "done"}
  /\ acts[r][<<w, "U">>].pc = "done"
  /\ acts[r][<<w, "U">>].out.kind # "error"

\* ---------------------------------------------------------------------
\* C13: a provider wrapped by requiresAuth(scheme, inner, scopes) resolves
\* the inner principal provider; it fails with the Unauthorized error
\* when the principal is absent (undefined or null), whatever the scopes;
\* it fails with the Forbidden error when the principal is present and a
\* required scope is not among its scopes (a principal without a scopes
\* array has none); otherwise, and always when no scope is required, it
\* resolves to the principal itself.
C13_RequiresAuth ==
  \A r \in Reqs :
    \A w \in Wrapped :
      AuthChecked(r, w) =>
        LET k == outcome[r]["U"]
            user == acts[r][<<w, "U">>].out
            out == acts[r][<<w>>].out
            required == Range(kSecurityMeta[w].scopes)
        IN /\ invoked[r]["U"] >= 1
           /\ k \in {"undefined", "null"} =>
                out.kind = "error" /\ out.msg = "unauthorized"
           /\ (k \notin {"undefined", "null"} /\ ~(required \subseteq Granted(k))) =>
                out.kind = "error" /\ out.msg = "forbidden"
           /\ (k \notin {"undefined", "null"} /\ required \subseteq Granted(k)) =>
                out = user /\ user.kind = "value" /\ user.prov = "U"

\* one principal with an empty scopes array: Reader refused it as
\* Forbidden, Member, which requires no scope, resolved to it
C13_Witness ==
  \E r \in Reqs :
    /\ AuthChecked(r, "Reader") /\ AuthChecked(r, "Member")
    /\ outcome[r]["U"] = "scopes0"
    /\ acts[r][<<"Reader">>].out.kind = "error"
    /\ acts[r][<<"Member">>].out.kind = "value"

\* the message of the authorization error a declared dependency of request
\* r failed with, "" when none did
AuthFailure(r) ==
  IF \E i \in 1..Len(route[r].deps) :
       /\ route[r].deps[i] \in Wrapped
       /\ acts[r][<<route[r].deps[i]>>].pc \in {"resume", "done"}
       /\ acts[r][<<route[r].deps[i]>>].out.kind = "error"
       /\ "msg" \in DOMAIN acts[r][<<route[r].deps[i]>>].out
  THEN LET i == CHOOSE i \in 1..Len(route[r].deps) :
                  /\ route[r].deps[i] \in Wrapped
                  /\ acts[r][<<route[r].deps[i]>>].pc \in {"resume", "done"}
                  /\ acts[r][<<route[r].deps[i]>>].out.kind = "error"
                  /\ "msg" \in DOMAIN acts[r][<<route[r].deps[i]>>].out
       IN acts[r][<<route[r].deps[i]>>].out.msg
  ELSE ""

\* ---------------------------------------------------------------------
\* C14: when a declared dependency of a route fails authorization, the
\* error is raised before the route handler is invoked (the handler does
\* not run for that request), the request is not answered by the handler,
\* and the client receives a response of status 401 for Unauthorized and
\* 403 for Forbidden.
C14_AuthFailsBeforeHandler ==
  \A r \in Reqs :
    AuthFailure(r) # "" =>
      /\ handlerCalls[r] = 0
      /\ pc[r] # "responded"
      /\ pc[r] = "errorResponded" =>
           response[r].status = (IF AuthFailure(r) = "unauthorized" THEN 401 ELSE 403)

\* ---------------------------------------------------------------------
\* the requirements the tagged dependencies of a declaration stand for
RECURSIVE Requirements(_)
Requirements(deps) ==
  IF deps = <<>> THEN <<>>
  ELSE (IF Head(deps) \in Wrapped
        THEN <<Requirement(kSecurityMeta[Head(deps)].scheme,
                           IF kSecurityMeta[Head(deps)].given
                           THEN kSecurityMeta[Head(deps)].scopes ELSE <<>>)>>
        ELSE <<>>) \o Requirements(Tail(deps))

HasTagged(deps) == deps.t = "deps" /\ \E k \in DOMAIN deps.v : deps.v[k] \in Wrapped

Documented == document.t = "document"

\* C15: a route registered without explicit security whose dependencies
\* include providers tagged by requiresAuth is documented with one
\* requirement {scheme: scopes} per tagged dependency, in declaration order,
\* scopes empty when none were given; untagged dependencies add nothing, and
\* a single dependency tagged bearerAuth with scopes read gives
\* [{bearerAuth: [read]}]
C15_DerivedSecurity ==
  Documented =>
    \A i \in DOMAIN openAPIRoutes :
      LET config == openAPIRoutes[i].config
          operation == document.paths[openAPIRoutes[i].path]
      IN (config.security.t = "undefined" /\ HasTagged(config.deps)) =>
           /\ operation.security = SecurityList(Requirements(config.deps.v))
           /\ Len(operation.security.v)
                = Cardinality({k \in DOMAIN config.deps.v : config.deps.v[k] \in Wrapped})
           /\ SelectSeq(config.deps.v, LAMBDA p : p \in Wrapped) = <<"Reader">> =>
                operation.security.v = <<[scheme |-> "bearerAuth", scopes |-> <<"read">>]>>
           /\ SelectSeq(config.deps.v, LAMBDA p : p \in Wrapped) = <<"Member", "Editor">> =>
                operation.security.v =
                  <<[scheme |-> "apiKey", scopes |-> <<>>],
                    [scheme |-> "bearerAuth", scopes |-> <<"read", "write">>]>>

\* a documented route whose dependencies are an untagged provider followed by
\* the bearerAuth provider with scope read, without explicit security
C15_Witness ==
  /\ Documented
  /\ \E i \in DOMAIN openAPIRoutes :
       /\ openAPIRoutes[i].config.security.t = "undefined"
       /\ openAPIRoutes[i].config.deps = DepsOf(<<"A", "Reader">>)
       /\ document.paths[openAPIRoutes[i].path].security
            = SecurityList(<<Requirement("bearerAuth", <<"read">>)>>)

\* ---------------------------------------------------------------------
\* C16: the security of a documented operation is the explicit route
\* security when one was given, an empty list included; otherwise the
\* security derived from the tagged providers; otherwise the operation has
\* no security of its own and the document carries the global security
C16_SecurityPrecedence ==
  Documented =>
    /\ document.security = globalOpenApiOptions.globalSecurity
    /\ \A i \in DOMAIN openAPIRoutes :
         LET config == openAPIRoutes[i].config
             operation == document.paths[openAPIRoutes[i].path]
         IN operation.security =
              IF config.security.t = "list" THEN config.security
              ELSE IF HasTagged(config.deps)
                   THEN SecurityList(Requirements(config.deps.v))
                   ELSE UndefinedValue

\* an explicit empty security on a route with a tagged dependency, in a
\* document with a global security
C16_Witness ==
  /\ Documented
  /\ document.security = SecurityList(<<Requirement("bearerAuth", <<>>)>>)
  /\ \E i \in DOMAIN openAPIRoutes :
       /\ openAPIRoutes[i].config.security = SecurityList(<<>>)
       /\ openAPIRoutes[i].config.deps = DepsOf(<<"Reader">>)
       /\ document.paths[openAPIRoutes[i].path].security = SecurityList(<<>>)

\* ---------------------------------------------------------------------
\* the statuses a normalized responses value declares
StatusesOf(responses) == IF responses.t = "map" THEN DOMAIN responses.m ELSE {}

\* the global responses as the generator normalizes them
GlobalResponses ==
  IF globalOpenApiOptions.globalResponses.t = "undefined" THEN UndefinedValue
  ELSE NormalizeResponsesSchema(globalOpenApiOptions.globalResponses)

\* C17: for a status configured globally and declared on a route, the
\* documented response of the route is the route's normalized response:
\* its content, its headers, its links, and its description when it has
\* one, nothing coming from the global entry; a status configured only
\* globally is documented with the content of the global entry
C17_RouteResponseWins ==
  Documented =>
    \A i \in DOMAIN openAPIRoutes :
      LET rt == openAPIRoutes[i]
          documented == document.paths[rt.path].responses
      IN /\ \A st \in StatusesOf(rt.responses) \cap StatusesOf(GlobalResponses) :
              /\ st \in StatusesOf(documented)
              /\ documented.m[st].content = rt.responses.m[st].content
              /\ documented.m[st].headers = rt.responses.m[st].headers
              /\ documented.m[st].links = rt.responses.m[st].links
              /\ rt.responses.m[st].description \notin {"undefined", ""} =>
                   documented.m[st].description = rt.responses.m[st].description
         /\ \A st \in StatusesOf(GlobalResponses) \ StatusesOf(rt.responses) :
              /\ st \in StatusesOf(documented)
              /\ documented.m[st].content = GlobalResponses.m[st].content

\* ---------------------------------------------------------------------
\* a canonical response spec: a map from status to response objects
IsCanonical(responses) ==
  /\ responses.t = "map"
  /\ \A st \in DOMAIN responses.m : responses.m[st].t = "response"

\* C18: normalizeResponsesSchema is idempotent: a canonical response spec,
\* the empty map included, is returned as it is, and normalizing the
\* normalized form of any declared responses changes nothing
C18_NormalizeIdempotent ==
  \A i \in DOMAIN openAPIRoutes :
    LET declared == openAPIRoutes[i].config.responses
        normalized == openAPIRoutes[i].responses
    IN declared.t # "undefined" =>
         /\ IsCanonical(declared) => normalized = declared
         /\ NormalizeResponsesSchema(normalized) = normalized

\* ---------------------------------------------------------------------
\* C19: a bare schema or a { schema } response declared as the responses of
\* a route becomes a map with the single status 200 whose content has the
\* single type application/json holding that schema, and a { content }
\* response becomes the single status 200; a bare schema declared as body
\* becomes required with content application/json, and a { schema } body is
\* not required when it says required: false and required otherwise
C19_DefaultStatusAndRequired ==
  \A i \in DOMAIN openAPIRoutes :
    LET declared == openAPIRoutes[i].config
        responses == openAPIRoutes[i].responses
        body == openAPIRoutes[i].body
    IN /\ declared.responses.t \in {"zod", "simple"} =>
            /\ responses.t = "map"
            /\ DOMAIN responses.m = {200}
            /\ DOMAIN responses.m[200].content = {"application/json"}
            /\ responses.m[200].content["application/json"].schema
                 = declared.responses.schema
       /\ declared.responses.t = "response" =>
            /\ responses.t = "map"
            /\ DOMAIN responses.m = {200}
            /\ responses.m[200] = declared.responses
       /\ declared.body.t = "zod" =>
            /\ body.required = "true"
            /\ DOMAIN body.content = {"application/json"}
            /\ body.content["application/json"].schema = declared.body.schema
       /\ declared.body.t = "simple" =>
            /\ body.required = (IF declared.body.required = "false" THEN "false" ELSE "true")
            /\ DOMAIN body.content = {"application/json"}
            /\ body.content["application/json"].schema = declared.body.schema

\* a route registered with the body { schema, required: false }
C19_Witness ==
  \E i \in DOMAIN openAPIRoutes :
    /\ openAPIRoutes[i].config.body.t = "simple"
    /\ openAPIRoutes[i].config.body.required = "false"
    /\ openAPIRoutes[i].body.required = "false"
    /\ openAPIRoutes[i].body.content["application/json"].schema = "S1"

\* ---------------------------------------------------------------------
\* the phases of a request: idle is Received, validating is
\* Parsing&Validating, validated is the end of that phase, handling is
\* Resolving Dependencies and Handling, returned is ResponseValidating,
\* failed is the wrapper having thrown
ClaimedEdges ==
  {<<"idle", "validating">>, <<"idle", "validated">>,
   <<"validating", "validating">>, <<"validating", "validated">>,
   <<"validating", "failed">>, <<"validated", "failed">>,
   <<"validated", "handling">>, <<"handling", "returned">>,
   <<"returned", "responded">>, <<"failed", "errorResponded">>}

\* and the exits of a valid request whose handler throws or whose response
\* fails validation
LifecycleEdges == ClaimedEdges \cup {<<"handling", "failed">>, <<"returned", "failed">>}

Terminal(r) == pc[r] \in {"responded", "errorResponded"}

\* the handler ran at most once, after every declared group was validated
\* without errors, and a response is validated only once the handler returned
HandlerAfterValidation ==
  \A r \in Reqs :
    /\ handlerCalls[r] <= 1
    /\ handlerCalls[r] = 1 =>
         /\ pc[r] \notin {"idle", "validating", "validated"}
         /\ gi[r] > Len(Groups)
         /\ validationErrors[r] = <<>>
         /\ \A g \in DeclaredGroups(route[r]) :
              ShouldParse(route[r], g, transport[r]) => g \in validated[r]
    /\ pc[r] \in {"handling", "returned", "responded"} => handlerCalls[r] = 1
    /\ pc[r] \in {"returned", "responded"} => result[r] # NoResponse

\* the wrapper of a request that was answered takes no step
TerminalStable ==
  \A r \in Reqs :
    Terminal(r) =>
      /\ pc'[r] = pc[r]
      /\ response'[r] = response[r]
      /\ handlerCalls'[r] = handlerCalls[r]
      /\ result'[r] = result[r]
      /\ thrown'[r] = thrown[r]

Follows(edges) == \A r \in Reqs : pc'[r] # pc[r] => <<pc[r], pc'[r]>> \in edges

Matching(r) ==
  SelectSeq(errorHandlers, LAMBDA h : InstanceOf(thrown[r].class, h.type))

\* the responder the last registerErrorHandler call for a type gave
LastRegistered(type) ==
  LET calls == SelectSeq(registerCalls, LAMBDA c : c.type = type)
  IN calls[Len(calls)].handler

\* C21: when several registered error types match a thrown error, the
\* responder is chosen by registration order among the matching types (the
\* first or the last registered of them), never by how specific a type is;
\* and registering a type again replaces its responder
C21_RegistrationOrder ==
  /\ \A i \in DOMAIN errorHandlers :
       (\E j \in DOMAIN registerCalls : registerCalls[j].type = errorHandlers[i].type) =>
         errorHandlers[i].handler = LastRegistered(errorHandlers[i].type)
  /\ \A r \in Reqs :
       (pc[r] = "errorResponded" /\ Len(Matching(r)) > 1) =>
         \E h \in {Matching(r)[1], Matching(r)[Len(Matching(r))]} :
           response[r] = ApplyErrorHandler(h.handler, thrown[r])

DocumentedSchema(path, status) ==
  LET documented == document.paths[path].responses
  IN IF /\ status \in StatusesOf(documented)
        /\ "application/json" \in DOMAIN documented.m[status].content
     THEN documented.m[status].content["application/json"].schema
     ELSE "null"

\* C23: for every status, the schema the wrapper of a route validates a
\* response of that status with is the application/json schema the document
\* advertises for that status on the route's operation: none is documented
\* and not enforced, none is enforced with another schema
C23_DocumentedIsEnforced ==
  (Documented /\ served # NoServed) =>
    served.schema = DocumentedSchema(served.path, served.status)

\* ---------------------------------------------------------------------
\* C24: the documented request body of a route that declares a form schema
\* offers multipart/form-data and application/x-www-form-urlencoded when no
\* property of the form is of the raw file type, and multipart/form-data
\* alone when one is; a bare file or files schema is documented as
\* multipart/form-data with an object schema of the one property file or
\* files
C24_FormContentTypes ==
  Documented =>
    \A i \in DOMAIN openAPIRoutes :
      LET config == openAPIRoutes[i].config
          requestBody == document.paths[openAPIRoutes[i].path].requestBody
      IN /\ config.form.t # "undefined" =>
              /\ requestBody.t = "body"
              /\ DOMAIN requestBody.content =
                   (IF config.form.hasFile THEN {"multipart/form-data"}
                    ELSE {"multipart/form-data", "application/x-www-form-urlencoded"})
              /\ \A c \in DOMAIN requestBody.content :
                   requestBody.content[c].schema = config.form.schema
         /\ config.file.t = "zod" =>
              /\ requestBody.t = "body"
              /\ DOMAIN requestBody.content = {"multipart/form-data"}
              /\ requestBody.content["multipart/form-data"].schema = "z.object({ file })"
         /\ config.files.t = "zod" =>
              /\ requestBody.t = "body"
              /\ DOMAIN requestBody.content = {"multipart/form-data"}
              /\ requestBody.content["multipart/form-data"].schema = "z.object({ files })"

\* ---------------------------------------------------------------------
\* C25: when a headers schema is declared and accepted the request headers,
\* the headers object the handler is called with is the raw header map
\* overlaid with the decoded values ({ ...rawHeaders, ...data }), so every
\* raw header, declared or not, can still be read from it
C25_HeadersAugmented ==
  \A r \in Reqs :
    (handlerCalls[r] > 0 /\ Declared(route[r], "headers")) =>
      parsed[r]["headers"] = "merged"

\* ---------------------------------------------------------------------
\* the routes the instances put on their routers, instance after instance
RECURSIVE RouterEntries(_)
RouterEntries(xs) ==
  IF xs = <<>> THEN <<>> ELSE Head(xs).router \o RouterEntries(Tail(xs))

\* the index in the registry of the descriptor of a path
IndexOf(path) == CHOOSE i \in DOMAIN openAPIRoutes : openAPIRoutes[i].path = path

\* C26: the registry is append-only and its descriptors never change: it
\* holds one descriptor for each route an instance registered, in the order
\* of the registrations of each instance, with the params and responses
\* the registration stored; a step changes the registry only by adding one
\* descriptor at its end, and a step that generates the document or serves
\* a request leaves it as it is
C26_RegistryAppendOnly ==
  /\ [](LET entries == RouterEntries(instances)
        IN /\ Len(openAPIRoutes) = Len(entries)
           /\ \A k \in DOMAIN entries :
                \E i \in DOMAIN openAPIRoutes :
                  /\ openAPIRoutes[i].path = entries[k].path
                  /\ openAPIRoutes[i].params = entries[k].params
                  /\ openAPIRoutes[i].responses = entries[k].responses
           /\ \A x \in DOMAIN instances :
                \A j, k \in DOMAIN instances[x].router :
                  j < k => IndexOf(instances[x].router[j].path)
                             < IndexOf(instances[x].router[k].path))
  /\ [][/\ Len(openAPIRoutes') \in {Len(openAPIRoutes), Len(openAPIRoutes) + 1}
        /\ \A i \in DOMAIN openAPIRoutes : openAPIRoutes'[i] = openAPIRoutes[i]
        /\ (document' # document \/ served' # served) =>
              openAPIRoutes' = openAPIRoutes]_vars

\* two instances registered a route each, the document was generated and
\* a request was served
C26_Witness ==
  /\ Len(instances) = 2
  /\ \A x \in DOMAIN instances : Len(instances[x].router) = 1
  /\ Len(openAPIRoutes) = 2
  /\ document # NoDocument
  /\ Cardinality(DOMAIN document.paths) = 2
  /\ served # NoServed

\* ---------------------------------------------------------------------
\* the instances constructed with options
Configured == {x \in DOMAIN instances : instances[x].options # UndefinedValue}

\* the options the last such instance was given, the empty options when
\* there is none
LastOptions ==
  IF Configured = {} THEN NoGlobalOptions
  ELSE instances[CHOOSE x \in Configured : \A y \in Configured : y <= x].options

\* the union of two shapes in which the global definition of a shared key
\* replaces the route's own
GlobalOverLocal(global, local) ==
  IF global.t = "undefined" THEN local
  ELSE IF local.t = "undefined" THEN global
  ELSE [t |-> "object",
        shape |-> [k \in (DOMAIN global.shape) \cup (DOMAIN local.shape) |->
                     IF k \in DOMAIN global.shape THEN global.shape[k]
                     ELSE local.shape[k]]]

\* the document has the routes of every instance, the metadata of the last
\* instance constructed with options, and in each operation the route's
\* own responses beside the global responses of that instance (with the
\* 400 and 500 the constructor adds), and no other
DocumentOfLastInstance ==
  LET entries == RouterEntries(instances)
      options == LastOptions
      globals == IF Configured = {} THEN {}
                 ELSE StatusesOf(options.globalResponses) \cup {400, 500}
  IN /\ document.t = "document"
     /\ DOMAIN document.paths = {entries[k].path : k \in DOMAIN entries}
     /\ document.info = (IF options.openapi = "undefined" THEN "API" ELSE options.openapi)
     /\ \A k \in DOMAIN entries :
          LET operation == document.paths[entries[k].path]
              own == StatusesOf(entries[k].responses)
          IN /\ StatusesOf(operation.responses) = own \cup globals
             /\ \A st \in StatusesOf(options.globalResponses) \ own :
                  operation.responses.m[st].content["application/json"].schema
                    = options.globalResponses.m[st].schema
             /\ operation.requestParams = entries[k].params

\* C29: the instances of a process share the registry and the global
\* options: a document that is generated has the routes of every instance
\* and only the metadata and global responses of the last instance
\* constructed with options, and a route that is registered gets the
\* global params of the last instance constructed with options before the
\* registration merged into its own
C29_SharedRegistryAndOptions ==
  [][/\ document' # document => DocumentOfLastInstance'
     /\ Len(openAPIRoutes') > Len(openAPIRoutes) =>
          LET rt == openAPIRoutes'[Len(openAPIRoutes')]
          IN rt.params = GlobalOverLocal(GlobalParams(LastOptions), rt.config.params)]_vars

\* X was constructed with options and global params and registered a route
\* that declares params, Y was then constructed with other options and no
\* global params, and the document generated has the route of X, with the
\* global params of X merged in, under the metadata of Y
C29_Witness ==
  /\ Len(instances) = 2
  /\ instances[1].options # UndefinedValue
  /\ instances[2].options # UndefinedValue
  /\ instances[1].options.openapi # instances[2].options.openapi
  /\ instances[1].options.globalRequestParams.t # "undefined"
  /\ instances[2].options.globalRequestParams.t = "undefined"
  /\ Len(instances[1].router) = 1
  /\ document # NoDocument
  /\ document.info = instances[2].options.openapi
  /\ instances[1].router[1].path \in DOMAIN document.paths
  /\ openAPIRoutes[1].config.params.t = "object"
  /\ document.paths[openAPIRoutes[1].path].requestParams
       = Extend(openAPIRoutes[1].config.params,
                instances[1].options.globalRequestParams.params.shape)

\* ---------------------------------------------------------------------
\* the wrapper an instance holds for a path
WrapperOf(path) ==
  LET entries == RouterEntries(instances)
  IN entries[CHOOSE k \in DOMAIN entries : entries[k].path = path]

\* C30: the params schema of a registered route is undefined when neither
\* the global options nor the route declared one, the one that was declared
\* when only one was, and otherwise a schema whose keys are those of both,
\* a key of both having the global definition; the wrapper of the route
\* validates with that schema and the document shows it
C30_MergeZodObjects ==
  \A i \in DOMAIN openAPIRoutes :
    LET rt == openAPIRoutes[i]
        global == rt.global
        local == rt.config.params
    IN /\ (global.t = "undefined" /\ local.t = "undefined") => rt.params = UndefinedValue
       /\ (global.t = "undefined" /\ local.t # "undefined") => rt.params = local
       /\ (global.t # "undefined" /\ local.t = "undefined") => rt.params = global
       /\ (global.t # "undefined" /\ local.t # "undefined") =>
            /\ rt.params.t = "object"
            /\ DOMAIN rt.params.shape = (DOMAIN global.shape) \cup (DOMAIN local.shape)
            /\ \A k \in DOMAIN rt.params.shape :
                 rt.params.shape[k] = (IF k \in DOMAIN global.shape THEN global.shape[k]
                                       ELSE local.shape[k])
       /\ WrapperOf(rt.path).params = rt.params
       /\ served.path = rt.path => served.params = rt.params
       /\ (Documented /\ rt.path \in DOMAIN document.paths) =>
            document.paths[rt.path].requestParams = rt.params

\* a route that declares the keys id and page was registered under global
\* params that declare id and lang, served a request and was documented
C30_Witness ==
  \E i \in DOMAIN openAPIRoutes :
    LET rt == openAPIRoutes[i]
    IN /\ rt.global.t = "object"
       /\ rt.config.params.t = "object"
       /\ DOMAIN rt.global.shape = {"id", "lang"}
       /\ DOMAIN rt.config.params.shape = {"id", "page"}
       /\ rt.params.shape["id"] = rt.global.shape["id"]
       /\ rt.params.shape["id"] # rt.config.params.shape["id"]
       /\ served.path = rt.path
       /\ Documented
       /\ rt.path \in DOMAIN document.paths

\* ---------------------------------------------------------------------
\* a resolution of provider p in request r that called the provider
\* function and has stored what it resolved to, of one of the given kinds
Memoized(r, p, kinds) ==
  \E id \in ActIds :
    /\ ProviderOf(id) = p
    /\ acts[r][id].pc = "done"
    /\ acts[r][id].n > 0
    /\ acts[r][id].out.kind \in kinds

\* C27: a resolution of a provider that starts after a resolution of the
\* same provider in the same request scope stored undefined calls the
\* provider function again; one that starts after a value other than
\* undefined, null included, was stored does not call it and returns what
\* the scope holds
C27_UndefinedNotMemoized ==
  [][\A r \in Reqs :
       \A id \in ActIds :
         (acts[r][id] = NoAct /\ acts'[r][id] # NoAct) =>
           LET p == ProviderOf(id)
           IN /\ Memoized(r, p, {"undefined"}) =>
                   /\ invoked'[r][p] = invoked[r][p] + 1
                   /\ acts'[r][id].n = invoked'[r][p]
              /\ Memoized(r, p, {"value", "null"}) =>
                   /\ invoked'[r][p] = invoked[r][p]
                   /\ acts'[r][id].pc = "done"
                   /\ acts'[r][id].out = stores[GetStore(r)][p]]_vars

\* the provider of the principal resolved to undefined, was stored, and a
\* later resolution in the same request called it a second time and has
\* stored undefined again
C27_Witness ==
  \E r \in Reqs :
    /\ invoked[r]["U"] = 2
    /\ "U" \in DOMAIN stores[GetStore(r)]
    /\ stores[GetStore(r)]["U"] = Undefined
    /\ \A id \in {<<"Reader", "U">>, <<"Member", "U">>} :
         /\ acts[r][id].pc = "done"
         /\ acts[r][id].out = Undefined

\* ---------------------------------------------------------------------
\* C28: when the handler returned a JSON response for whose status the
\* route declares a schema and the schema accepted it, the response sent
\* is a new JSON response of that status holding the decoded body, whose
\* only header is Content-Type: no other header the handler set on its
\* response reaches the client
C28_ValidatedResponseRebuilt ==
  \A r \in Reqs :
    (/\ pc[r] = "responded"
     /\ result[r].class = "JSONResponse"
     /\ GetResponsesValidationSchema(route[r].responses, result[r].status) # "null") =>
      /\ response[r].class = "JSONResponse"
      /\ response[r].status = result[r].status
      /\ response[r].body = JSONStringify(SafeParse(JSONParse(result[r].body)).data)
      /\ DOMAIN response[r].headers = {"Content-Type"}
      /\ \A h \in (DOMAIN result[r].headers) \ {"Content-Type"} :
           h \notin DOMAIN response[r].headers

\* a handler returned a JSON response with the header X-Trace for a status
\* with a schema, and the response sent has no X-Trace
C28_Witness ==
  \E r \in Reqs :
    /\ pc[r] = "responded"
    /\ result[r].class = "JSONResponse"
    /\ "X-Trace" \in DOMAIN result[r].headers
    /\ GetResponsesValidationSchema(route[r].responses, result[r].status) # "null"
    /\ "X-Trace" \notin DOMAIN response[r].headers

====
